---- MODULE Spec2Model ----
(***************************************************************************)
(* Submission and scoring pipeline of the survey platform.                 *)
(*                                                                         *)
(* The store holds the StudentResponse and StudentSectionResult tables as  *)
(* bags of rows (the uniqueness constraints are enforced by the write      *)
(* operators, as the database enforces them, and are not built into the    *)
(* representation).  The authored hierarchy College -> Category ->         *)
(* Section -> Question -> Option and the registered students are fixed.    *)
(* Two handlers submit a batch: the view submit_responses and the service  *)
(* SurveySubmissionService.process_submission.  get_student_results reads. *)
(* A client issues one call at a time: a handler runs as one step and      *)
(* leaves its outcome in `last`; Return hands the outcome to the client.   *)
(***************************************************************************)
EXTENDS Integers, Sequences, FiniteSets, Bags, TLC

VARIABLES
    responses,   \* the StudentResponse table, a bag of rows
    results,     \* the StudentSectionResult table, a bag of rows
    last,        \* the call that has just been handled and its outcome
    students,    \* the Student table, a bag of rows
    reg,         \* the register_student requests in progress, one per worker
    questions,   \* the Question table, a set of rows with their ids
    options,     \* the Option table, a set of rows with their ids
    saved,       \* the last Question.save() and the Option table before it
    calls        \* the submit calls that run at the same time, one per worker

vars == <<responses, results, last, students, reg, questions, options, saved, calls>>

\* the variables of the submission pipeline and those of the registration
submission_vars == <<responses, results, last>>

registration_vars == <<students, reg>>

authoring_vars == <<questions, options, saved>>

concurrent_vars == <<calls>>

(***************************************************************************)
(* Bounds of the model.                                                    *)
(***************************************************************************)
\* longest batch of arbitrary pairs (Pairs)
MaxBatch == 2
\* longest batch of pairs of a question with one of its options (AnswerPairs)
MaxAnswerBatch == 3
\* the number of questions authored on top of the catalogue
MaxAuthored == 2
\* longest batch of a submit call that runs next to another one
MaxConcurrentBatch == 2
\* the highest total_marks of a result row that is stored before a recalculation
MaxStoredMarks == 2

(***************************************************************************)
(* The authored hierarchy (models.py).  Names are sequences of characters  *)
(* so that the case-insensitive match of the lookups is computed.          *)
(***************************************************************************)
College == {"c1", "c2"}

CollegeName == "c1" :> <<"A", "l">> @@ "c2" :> <<"B", "e">>

Category == {"cat1", "cat2"}

CategoryCollege == "cat1" :> "c1" @@ "cat2" :> "c1"

CategoryName == "cat1" :> "Aptitude" @@ "cat2" :> "Feedback"

has_correct_answers == "cat1" :> TRUE @@ "cat2" :> FALSE

\* Section.name is not unique: the subjective category holds two sections
\* named "Campus".  The last two sections hold no question yet.
Section == {"sec1", "sec2", "sec3", "sec4", "sec5"}

SectionCategory ==
    "sec1" :> "cat1" @@ "sec2" :> "cat2" @@ "sec3" :> "cat2" @@ "sec4" :> "cat1"
        @@ "sec5" :> "cat2"

SectionName ==
    "sec1" :> "Math" @@ "sec2" :> "Campus" @@ "sec3" :> "Campus" @@ "sec4" :> "Logic"
        @@ "sec5" :> "Hostel"

SubjectiveOptionTemplate == {"likert", "blank"}

\* template.options.all(): the texts of the SubjectiveOptions of a template,
\* in the order the store lists them; "blank" has none
TemplateOptions == "likert" :> <<"Agree", "Disagree">> @@ "blank" :> <<>>

\* Section.subjective_option_template (null for the first and the third);
\* only the admin form keeps a template off the section of a scored category
subjective_option_template ==
    "sec1" :> "None" @@ "sec2" :> "likert" @@ "sec3" :> "None" @@ "sec4" :> "likert"
        @@ "sec5" :> "blank"

Question == {1, 2, 3, 4}

QuestionSection == 1 :> "sec1" @@ 2 :> "sec1" @@ 3 :> "sec2" @@ 4 :> "sec3"

QuestionText == 1 :> "2+2?" @@ 2 :> "3*3?" @@ 3 :> "Library?" @@ 4 :> "Canteen?"

Option == {1, 2, 3, 5, 6, 7}

OptionQuestion == 1 :> 1 @@ 2 :> 1 @@ 3 :> 2 @@ 5 :> 3 @@ 6 :> 3 @@ 7 :> 4

OptionText ==
    1 :> "4" @@ 2 :> "5" @@ 3 :> "9" @@ 5 :> "Agree" @@ 6 :> "Disagree" @@ 7 :> "Agree"

is_correct ==
    1 :> TRUE @@ 2 :> FALSE @@ 3 :> TRUE @@ 5 :> FALSE @@ 6 :> FALSE @@ 7 :> FALSE

\* the registered students: the same student_id in two colleges, and a
\* second student of the first college
Student == {"st1", "st2", "st3"}

StudentCollege == "st1" :> "c1" @@ "st2" :> "c2" @@ "st3" :> "c1"

StudentId == "st1" :> "S-1" @@ "st2" :> "S-1" @@ "st3" :> "S-3"

StudentName == "st1" :> "Asha" @@ "st2" :> "Bilal" @@ "st3" :> "Dev"

(***************************************************************************)
(* What a client may send.                                                 *)
(***************************************************************************)
\* a case variant of a stored name, a stored name, a name of no college
CollegeNames == {<<"A", "L">>, <<"B", "e">>, <<"G", "a">>}

StudentIds == {"S-1", "S-2"}

\* The ids of arbitrary pairs: a scored and a subjective question and a
\* question id that names nothing; an option of the scored question, an
\* option of the subjective one and an option id that names nothing.
QuestionIds == {1, 3, 9}

OptionIds == {1, 5, 99}

Pairs == [question_id : QuestionIds, selected_option_id : OptionIds]

\* every pair of a question of the catalogue with one of its own options
AnswerPairs ==
    {p \in [question_id : Question, selected_option_id : Option] :
        OptionQuestion[p.selected_option_id] = p.question_id}

SeqsUpTo(S, n) == UNION {[1..k -> S] : k \in 0..n}

Batches == SeqsUpTo(Pairs, MaxBatch) \cup SeqsUpTo(AnswerPairs, MaxAnswerBatch)

(***************************************************************************)
(* name__iexact: both sides are case-folded, then compared.                *)
(***************************************************************************)
LowerChar(ch) ==
    CASE ch = "A" -> "a" [] ch = "B" -> "b" [] ch = "G" -> "g"
      [] ch = "L" -> "l" [] ch = "E" -> "e"
      [] OTHER -> ch

Lower(s) == [i \in DOMAIN s |-> LowerChar(s[i])]

iexact(stored, given) == Lower(stored) = Lower(given)

(***************************************************************************)
(* Exceptions.  Http404 is raised by get_object_or_404; it derives from    *)
(* Exception directly and not from ObjectDoesNotExist.                     *)
(***************************************************************************)
Bases ==
    "Http404" :> {"Http404", "Exception"} @@
    "ValidationError" :> {"ValidationError", "APIException", "Exception"} @@
    "IntegrityError" :> {"IntegrityError", "DatabaseError", "Exception"} @@
    "ValueError" :> {"ValueError", "Exception"} @@
    "OperationalError" :> {"OperationalError", "DatabaseError", "Exception"} @@
    "MultipleObjectsReturned" :> {"MultipleObjectsReturned", "Exception"}

IsInstance(exc, cls) == cls \in Bases[exc]

(***************************************************************************)
(* Tables as bags of rows.                                                 *)
(***************************************************************************)
ResponseRow(s, q, o, at) ==
    [student |-> s, question |-> q, selected_option |-> o, submitted_at |-> at]

ResultRow(s, sec, marks) == [student |-> s, section |-> sec, total_marks |-> marks]

\* QuerySet.filter: the rows of tbl that satisfy P, with their multiplicity
Filter(tbl, P(_)) == [r \in {x \in BagToSet(tbl) : P(x)} |-> tbl[r]]

\* QuerySet.count
Count(tbl, P(_)) == BagCardinality(Filter(tbl, P))

\* every row mapped by F (an UPDATE statement; a list built row by row)
MapRows(tbl, F(_)) ==
    [y \in {F(x) : x \in BagToSet(tbl)} |-> Count(tbl, LAMBDA x : F(x) = y)]

Range(seq) == {seq[i] : i \in DOMAIN seq}

\* the section, category and college a question resolves to
SectionOf(q) == QuestionSection[q]

CategoryOf(q) == SectionCategory[QuestionSection[q]]

CollegeOfQuestion(q) == CategoryCollege[CategoryOf(q)]

CollegeOfSection(sec) == CategoryCollege[SectionCategory[sec]]

(***************************************************************************)
(* Lookups of the handlers.                                                *)
(***************************************************************************)
\* get_object_or_404(College, name__iexact=college_name): the matching colleges
GetCollege(college_name) == {c \in College : iexact(CollegeName[c], college_name)}

\* get_object_or_404(Student, student_id=student_id, college=college)
GetStudent(student_id, college) ==
    {s \in Student : StudentId[s] = student_id /\ StudentCollege[s] = college}

\* questions_map without the section__category__college=college condition
questions_map_AnyCollege(question_ids, college) ==
    {q \in Question : q \in question_ids}

\* Question.objects.filter(id__in=question_ids, section__category__college=college)
questions_map(question_ids, college) ==
    {q \in Question : q \in question_ids /\ CollegeOfQuestion(q) = college}

\* Option.objects.filter(id__in=option_ids)
options_map(option_ids) == {o \in Option : o \in option_ids}

question_ids_of(responses_data) ==
    {responses_data[i].question_id : i \in DOMAIN responses_data}

option_ids_of(responses_data) ==
    {responses_data[i].selected_option_id : i \in DOMAIN responses_data}

\* StudentResponse.objects.filter(student=student, question_id__in=question_ids)
existing_responses(tbl, student, question_ids) ==
    Filter(tbl, LAMBDA r : r.student = student /\ r.question \in question_ids)

\* {resp.question_id: resp}: the fetched objects, by question id; the value is
\* the selected_option_id the object holds in memory
existing_responses_map(tbl, student, question_ids) ==
    LET rows == BagToSet(existing_responses(tbl, student, question_ids))
    IN  [q \in {r.question : r \in rows} |->
            (CHOOSE r \in rows : r.question = q).selected_option]

(***************************************************************************)
(* The reconciliation loop over the batch, in batch order.  `selected` is  *)
(* the in-memory selected_option_id of the fetched objects; to_update      *)
(* lists the objects (by question id) appended to responses_to_update.     *)
(***************************************************************************)
LoopStart(tbl, student, responses_data) ==
    [selected |-> existing_responses_map(tbl, student, question_ids_of(responses_data)),
     to_create |-> <<>>,
     to_update |-> <<>>,
     touched |-> {},
     mismatch |-> <<>>]

\* the loop without its integrity check
NotBelongs_Never(oid, qid) == FALSE

\* option.question_id != qid
NotBelongs(oid, qid) == OptionQuestion[oid] # qid

\* Reconcile without the test that the choice changed: every pair that
\* finds a stored response is appended to responses_to_update
Reconcile_AlwaysUpdate(st, qid, oid) ==
    LET st1 == IF qid \in DOMAIN st.selected
               THEN [st EXCEPT !.selected[qid] = oid, !.to_update = Append(@, qid)]
               ELSE [st EXCEPT !.to_create =
                         Append(@, [question_id |-> qid, selected_option_id |-> oid])]
    IN  IF has_correct_answers[CategoryOf(qid)]
        THEN [st1 EXCEPT !.touched = @ \cup {SectionOf(qid)}]
        ELSE st1

\* Reconcile that tracks the section of every question, scored or not
Reconcile_TouchAll(st, qid, oid) ==
    LET st1 == IF qid \in DOMAIN st.selected
               THEN IF st.selected[qid] # oid
                    THEN [st EXCEPT !.selected[qid] = oid,
                                    !.to_update = Append(@, qid)]
                    ELSE st
               ELSE [st EXCEPT !.to_create =
                         Append(@, [question_id |-> qid, selected_option_id |-> oid])]
    IN  [st1 EXCEPT !.touched = @ \cup {SectionOf(qid)}]

\* one iteration, after the integrity check passed
Reconcile(st, qid, oid) ==
    LET st1 == IF qid \in DOMAIN st.selected
               THEN IF st.selected[qid] # oid
                    THEN [st EXCEPT !.selected[qid] = oid,
                                    !.to_update = Append(@, qid)]
                    ELSE st
               ELSE [st EXCEPT !.to_create =
                         Append(@, [question_id |-> qid, selected_option_id |-> oid])]
    IN  IF has_correct_answers[CategoryOf(qid)]
        THEN [st1 EXCEPT !.touched = @ \cup {SectionOf(qid)}]
        ELSE st1

RECURSIVE Loop(_, _, _)
Loop(responses_data, i, st) ==
    IF i > Len(responses_data) THEN st
    ELSE LET qid == responses_data[i].question_id
             oid == responses_data[i].selected_option_id
         IN  IF NotBelongs(oid, qid)
             THEN [st EXCEPT !.mismatch = <<oid, qid>>]
             ELSE Loop(responses_data, i + 1, Reconcile(st, qid, oid))

(***************************************************************************)
(* Writes.                                                                 *)
(***************************************************************************)
\* bulk_update with 'selected_option_id' left out of the field list
BulkUpdate_TimestampOnly(tbl, student, to_update, selected) ==
    MapRows(tbl, LAMBDA r :
        IF r.student = student /\ r.question \in Range(to_update)
        THEN ResponseRow(student, r.question, r.selected_option, "now")
        ELSE r)

\* bulk_update of every fetched response, changed or not
BulkUpdate_AllFetched(tbl, student, to_update, selected) ==
    MapRows(tbl, LAMBDA r :
        IF r.student = student /\ r.question \in DOMAIN selected
        THEN ResponseRow(student, r.question, selected[r.question], "now")
        ELSE r)

\* bulk_update that matches the rows by question only
BulkUpdate_AnyStudent(tbl, student, to_update, selected) ==
    MapRows(tbl, LAMBDA r :
        IF r.question \in Range(to_update)
        THEN ResponseRow(r.student, r.question, selected[r.question], "now")
        ELSE r)

\* bulk_update(responses_to_update, ['selected_option_id', 'submitted_at'])
BulkUpdate(tbl, student, to_update, selected) ==
    MapRows(tbl, LAMBDA r :
        IF r.student = student /\ r.question \in Range(to_update)
        THEN ResponseRow(student, r.question, selected[r.question], "now")
        ELSE r)

\* StudentResponse without its UniqueConstraint
UniqueViolation_Never(tbl, student, to_create) == FALSE

\* unique_student_question_response, checked by the INSERT of bulk_create
UniqueViolation(tbl, student, to_create) ==
    \/ \E i \in DOMAIN to_create :
          Count(tbl, LAMBDA r : r.student = student
                                /\ r.question = to_create[i].question_id) > 0
    \/ \E i, j \in DOMAIN to_create :
          i < j /\ to_create[i].question_id = to_create[j].question_id

RECURSIVE InsertAll(_, _, _, _)
InsertAll(tbl, student, to_create, i) ==
    IF i > Len(to_create) THEN tbl
    ELSE InsertAll(
            tbl (+) SetToBag({ResponseRow(student, to_create[i].question_id,
                                          to_create[i].selected_option_id, "now")}),
            student, to_create, i + 1)

\* bulk_create(responses_to_create): one INSERT, all rows or IntegrityError
BulkCreate(tbl, student, to_create) ==
    IF UniqueViolation(tbl, student, to_create)
    THEN [raised |-> "IntegrityError", table |-> tbl]
    ELSE [raised |-> "None", table |-> InsertAll(tbl, student, to_create, 1)]

\* an upsert that adds the marks to the stored total
update_or_create_Accumulate(res, student, section_id, total_marks) ==
    LET n == Count(res, LAMBDA r : r.student = student /\ r.section = section_id)
    IN  IF n = 0
        THEN [raised |-> "None",
              table |-> res (+) SetToBag({ResultRow(student, section_id, total_marks)})]
        ELSE [raised |-> "None",
              table |-> MapRows(res, LAMBDA r :
                  IF r.student = student /\ r.section = section_id
                  THEN ResultRow(student, section_id, r.total_marks + total_marks)
                  ELSE r)]

\* StudentSectionResult.objects.update_or_create(student, section_id, defaults)
update_or_create(res, student, section_id, total_marks) ==
    LET n == Count(res, LAMBDA r : r.student = student /\ r.section = section_id)
    IN  IF n = 0
        THEN [raised |-> "None",
              table |-> res (+) SetToBag({ResultRow(student, section_id, total_marks)})]
        ELSE IF n = 1
        THEN [raised |-> "None",
              table |-> MapRows(res, LAMBDA r :
                  IF r.student = student /\ r.section = section_id
                  THEN ResultRow(student, section_id, total_marks)
                  ELSE r)]
        ELSE [raised |-> "MultipleObjectsReturned", table |-> res]

\* CorrectCount without the selected_option__is_correct=True condition
CorrectCount_AnyOption(tbl, student, section_id) ==
    Count(tbl, LAMBDA r : /\ r.student = student
                          /\ r.question \in Question
                          /\ SectionOf(r.question) = section_id)

\* .filter(student, question__section_id=section_id, selected_option__is_correct=True).count()
CorrectCount(tbl, student, section_id) ==
    Count(tbl, LAMBDA r : /\ r.student = student
                          /\ r.question \in Question
                          /\ SectionOf(r.question) = section_id
                          /\ r.selected_option \in Option
                          /\ is_correct[r.selected_option])

\* the rescoring loop of the view: one count and one upsert per touched section
RECURSIVE RescoreEach(_, _, _, _)
RescoreEach(tbl, res, student, section_ids) ==
    IF section_ids = {} THEN [raised |-> "None", table |-> res]
    ELSE LET section_id == CHOOSE x \in section_ids : TRUE
             w == update_or_create(res, student, section_id,
                                   CorrectCount(tbl, student, section_id))
         IN  IF w.raised # "None" THEN w
             ELSE RescoreEach(tbl, w.table, student, section_ids \ {section_id})

\* the grouped aggregate without the is_correct condition
scores_map_AnyOption(tbl, student, section_ids) ==
    [sec \in {x \in section_ids : CorrectCount_AnyOption(tbl, student, x) > 0} |->
        CorrectCount_AnyOption(tbl, student, sec)]

\* the grouped aggregate of the service: a score for each section that has
\* at least one correct response
scores_map(tbl, student, section_ids) ==
    [sec \in {x \in section_ids : CorrectCount(tbl, student, x) > 0} |->
        CorrectCount(tbl, student, sec)]

\* the lookup with a default of one mark
score_of_DefaultOne(scores, section_id) ==
    IF section_id \in DOMAIN scores THEN scores[section_id] ELSE 1

\* scores_map.get(section_id, 0)
score_of(scores, section_id) ==
    IF section_id \in DOMAIN scores THEN scores[section_id] ELSE 0

RECURSIVE UpsertScores(_, _, _, _)
UpsertScores(res, student, section_ids, scores) ==
    IF section_ids = {} THEN [raised |-> "None", table |-> res]
    ELSE LET section_id == CHOOSE x \in section_ids : TRUE
             w == update_or_create(res, student, section_id,
                                   score_of(scores, section_id))
         IN  IF w.raised # "None" THEN w
             ELSE UpsertScores(w.table, student, section_ids \ {section_id}, scores)

\* SurveySubmissionService._recalculate_marks
recalculate_marks(tbl, res, student, section_ids) ==
    UpsertScores(res, student, section_ids, scores_map(tbl, student, section_ids))

\* atomic without the rollback: the writes made before the exception stay
atomic_NoRollback(pre_responses, pre_results, body) == body

\* with transaction.atomic(): an exception leaving the block rolls every write
\* of the block back; body carries the tables as the block left them
atomic(pre_responses, pre_results, body) ==
    IF body.raised # "None"
    THEN [raised |-> body.raised, responses |-> pre_responses, results |-> pre_results]
    ELSE body

\* if responses_to_update: bulk_update(...)
AfterUpdate(tbl, student, st) ==
    IF st.to_update # <<>>
    THEN BulkUpdate(tbl, student, st.to_update, st.selected)
    ELSE tbl

\* if responses_to_create: bulk_create(...), on the table the update left
AfterCreate(t1, student, st) ==
    IF st.to_create # <<>>
    THEN BulkCreate(t1, student, st.to_create)
    ELSE [raised |-> "None", table |-> t1]

\* the tables as the block leaves them: c is the outcome of the response
\* writes, w that of the result writes
Written(c, w) == [raised |-> w.raised, responses |-> c.table, results |-> w.table]

\* the rescoring of the view, skipped when the insert raised
ViewRescore(c, res, student, st) ==
    IF c.raised # "None"
    THEN [raised |-> c.raised, responses |-> c.table, results |-> res]
    ELSE Written(c, RescoreEach(c.table, res, student, st.touched))

\* the statements of the view's atomic block
ViewWrites(tbl, res, student, st) ==
    ViewRescore(AfterCreate(AfterUpdate(tbl, student, st), student, st),
                res, student, st)

\* the rescoring of the service, skipped when the insert raised
ServiceRescore(c, res, student, st) ==
    IF c.raised # "None"
    THEN [raised |-> c.raised, responses |-> c.table, results |-> res]
    ELSE IF st.touched # {}
    THEN Written(c, recalculate_marks(c.table, res, student, st.touched))
    ELSE [raised |-> "None", responses |-> c.table, results |-> res]

\* the statements of the service's atomic block
ServiceWrites(tbl, res, student, st) ==
    ServiceRescore(AfterCreate(AfterUpdate(tbl, student, st), student, st),
                   res, student, st)

(***************************************************************************)
(* Outcomes.  `raised` is the exception that leaves the code ("None" when  *)
(* it returns); `status` is the HTTP status of the Response the view       *)
(* returns (0 where no Response is built); created and updated are         *)
(* len(responses_to_create) and len(responses_to_update), which the        *)
(* service returns and the view writes to its log.                         *)
(***************************************************************************)
Outcome(raised, status, created, updated, mq, mo, mismatch, tbl, res) ==
    [raised |-> raised, status |-> status, created |-> created, updated |-> updated,
     missing_questions |-> mq, missing_options |-> mo, mismatch |-> mismatch,
     responses |-> tbl, results |-> res]

Raise(exc, tbl, res) == Outcome(exc, 0, 0, 0, {}, {}, <<>>, tbl, res)

\* missing_questions that stops at the first missing id
missing_questions_First(responses_data, college) ==
    LET all == question_ids_of(responses_data)
                   \ questions_map(question_ids_of(responses_data), college)
    IN  IF all = {} THEN {} ELSE {CHOOSE q \in all : TRUE}

\* q_ids - set(q_map.keys()) and o_ids - set(o_map.keys())
missing_questions(responses_data, college) ==
    question_ids_of(responses_data)
        \ questions_map(question_ids_of(responses_data), college)

missing_options(responses_data) ==
    option_ids_of(responses_data) \ options_map(option_ids_of(responses_data))

\* SubmissionSerializer.is_valid: responses has allow_empty=False
is_valid(responses_data) == responses_data # <<>>

\* the end of the try block: the atomic block raised, or the view answers 201
ViewCommitted(st, w) ==
    IF w.raised # "None"
    THEN Raise(w.raised, w.responses, w.results)
    ELSE Outcome("None", 201, Len(st.to_create), Len(st.to_update),
                 {}, {}, <<>>, w.responses, w.results)

\* the loop ended: with the 400 of a mismatched pair, or with the lists
ViewReconciled(tbl, res, student, st) ==
    IF st.mismatch # <<>>
    THEN Outcome("None", 400, 0, 0, {}, {}, st.mismatch, tbl, res)
    ELSE ViewCommitted(st, atomic(tbl, res, ViewWrites(tbl, res, student, st)))

\* the 400 of the missing ids, or the loop
ViewChecked(tbl, res, student, responses_data, mq, mo) ==
    IF mq # {} \/ mo # {}
    THEN Outcome("None", 400, 0, 0, mq, mo, <<>>, tbl, res)
    ELSE ViewReconciled(tbl, res, student,
                        Loop(responses_data, 1, LoopStart(tbl, student, responses_data)))

\* the try block of submit_responses, for a resolved college and student
ViewResolved(tbl, res, college, student, responses_data) ==
    ViewChecked(tbl, res, student, responses_data,
                missing_questions(responses_data, college),
                missing_options(responses_data))

\* the try block of submit_responses
ViewTry(tbl, res, college_name, student_id, responses_data) ==
    IF ~is_valid(responses_data) THEN Raise("ValidationError", tbl, res)
    ELSE IF GetCollege(college_name) = {} THEN Raise("Http404", tbl, res)
    ELSE LET college == CHOOSE c \in GetCollege(college_name) : TRUE
         IN  IF GetStudent(student_id, college) = {} THEN Raise("Http404", tbl, res)
             ELSE ViewResolved(tbl, res, college,
                               CHOOSE s \in GetStudent(student_id, college) : TRUE,
                               responses_data)

\* the except clauses of submit_responses, in their order
ExceptStatus(exc) ==
    IF IsInstance(exc, "ValidationError") THEN 400
    ELSE IF IsInstance(exc, "ObjectDoesNotExist") THEN 404
    ELSE IF IsInstance(exc, "IntegrityError") THEN 409
    ELSE 500

\* an exception of the try block becomes the Response of its except clause
Respond(t) ==
    IF t.raised = "None" THEN t
    ELSE [t EXCEPT !.raised = "None", !.status = ExceptStatus(t.raised)]

\* views.submit_responses
submit_responses(tbl, res, college_name, student_id, responses_data) ==
    Respond(ViewTry(tbl, res, college_name, student_id, responses_data))

\* _validate_completeness: raises when an id is missing
validate_completeness(responses_data, college) ==
    missing_questions(responses_data, college) # {}
        \/ missing_options(responses_data) # {}

\* process_submission that returns the two lengths in the other order
ServiceCommitted_Swapped(st, w) ==
    IF w.raised # "None"
    THEN Raise(w.raised, w.responses, w.results)
    ELSE Outcome("None", 0, Len(st.to_update), Len(st.to_create),
                 {}, {}, <<>>, w.responses, w.results)

\* the end of process_submission: the atomic block raised, or the counts
ServiceCommitted(st, w) ==
    IF w.raised # "None"
    THEN Raise(w.raised, w.responses, w.results)
    ELSE Outcome("None", 0, Len(st.to_create), Len(st.to_update),
                 {}, {}, <<>>, w.responses, w.results)

\* the loop ended: with the ValueError of a mismatched pair, or with the lists
ServiceReconciled(tbl, res, student, st) ==
    IF st.mismatch # <<>>
    THEN Outcome("ValueError", 0, 0, 0, {}, {}, st.mismatch, tbl, res)
    ELSE ServiceCommitted(st, atomic(tbl, res, ServiceWrites(tbl, res, student, st)))

\* process_submission, for a resolved college and student
ServiceResolved(tbl, res, college, student, responses_data) ==
    IF validate_completeness(responses_data, college)
    THEN Outcome("ValueError", 0, 0, 0,
                 missing_questions(responses_data, college),
                 missing_options(responses_data), <<>>, tbl, res)
    ELSE ServiceReconciled(tbl, res, student,
                           Loop(responses_data, 1, LoopStart(tbl, student, responses_data)))

\* SurveySubmissionService.process_submission
process_submission(tbl, res, college_name, student_id, responses_data) ==
    IF GetCollege(college_name) = {} THEN Raise("Http404", tbl, res)
    ELSE LET college == CHOOSE c \in GetCollege(college_name) : TRUE
         IN  IF GetStudent(student_id, college) = {} THEN Raise("Http404", tbl, res)
             ELSE ServiceResolved(tbl, res, college,
                                  CHOOSE s \in GetStudent(student_id, college) : TRUE,
                                  responses_data)

\* the student a request resolves to, if any
Requester(college_name, student_id) ==
    UNION {GetStudent(student_id, c) : c \in GetCollege(college_name)}

(***************************************************************************)
(* get_student_results.  The lists of the response are bags: the order in  *)
(* which rows are fetched is not modelled.                                 *)
(***************************************************************************)
\* the count of the questions of every section
total_section_questions_All(sec) == Cardinality(Question)

\* Count('section__questions')
total_section_questions(sec) == Cardinality({q \in Question : QuestionSection[q] = sec})

\* StudentSectionResult.objects.filter(student=student)
marks_results(res, student) == Filter(res, LAMBDA r : r.student = student)

\* the entry appended for a result row
objective_entry(r) ==
    [section |-> SectionName[r.section], result_type |-> "marks",
     total_mark |-> total_section_questions(r.section),
     student_score |-> r.total_marks]

\* .filter(student=student, question__section__category__has_correct_answers=False)
subjective_responses(tbl, student) ==
    Filter(tbl, LAMBDA r : r.student = student
                           /\ ~has_correct_answers[CategoryOf(r.question)])

\* the key (cat, sec) under which a response is filed
NameKey(r) == <<CategoryName[CategoryOf(r.question)], SectionName[SectionOf(r.question)]>>

\* responses_by_section_and_category[(cat, sec)]
responses_by_section_and_category(tbl, student, key) ==
    MapRows(Filter(subjective_responses(tbl, student), LAMBDA r : NameKey(r) = key),
            LAMBDA r : [question |-> QuestionText[r.question],
                        selected_option |-> OptionText[r.selected_option]])

\* results_by_category[category_name]["objective"]
objective_of(res, student, category_name) ==
    MapRows(Filter(marks_results(res, student),
                   LAMBDA r : CategoryName[SectionCategory[r.section]] = category_name),
            objective_entry)

\* results_by_category[category_name]["subjective"]: one entry for each key
subjective_of(tbl, student, category_name) ==
    SetToBag({[section |-> key[2], result_type |-> "subjective",
               responses |-> responses_by_section_and_category(tbl, student, key)] :
              key \in {NameKey(r) : r \in
                          {x \in BagToSet(subjective_responses(tbl, student)) :
                              NameKey(x)[1] = category_name}}})

\* the keys of results_by_category
category_names(tbl, res, student) ==
    {CategoryName[SectionCategory[r.section]] : r \in BagToSet(marks_results(res, student))}
        \cup {NameKey(r)[1] : r \in BagToSet(subjective_responses(tbl, student))}

final_response(tbl, res, student) ==
    [student_name |-> StudentName[student],
     student_id |-> StudentId[student],
     results |-> {[category |-> c,
                   objective |-> objective_of(res, student, c),
                   subjective |-> subjective_of(tbl, student, c)] :
                  c \in category_names(tbl, res, student)}]

\* views.get_student_results: Http404 leaves the view, which has no try block
get_student_results(tbl, res, college_name, student_id) ==
    IF Requester(college_name, student_id) = {}
    THEN [raised |-> "Http404", body |-> <<>>]
    ELSE [raised |-> "None",
          body |-> final_response(tbl, res,
                      CHOOSE s \in Requester(college_name, student_id) : TRUE)]

(***************************************************************************)
(* register_student.  Two workers serve requests at the same time; the     *)
(* statements of a request that read or write the Student table are steps  *)
(* of their own.  The INSERT of a key that a concurrent transaction has    *)
(* inserted waits for that transaction, so INSERT and commit are one step. *)
(***************************************************************************)
Worker == {1, 2}

\* what a client may send as college_name and name
RegCollegeNames == {<<"A", "L">>, <<" ", "B", "e", " ">>, <<"G", "a">>}

RegNames == {"Asha", "Chitra"}

StudentRow(college, student_id, name) ==
    [college |-> college, student_id |-> student_id, name |-> name]

\* the students of the catalogue, as rows of the table
RegisteredStudents ==
    SetToBag({StudentRow(StudentCollege[s], StudentId[s], StudentName[s]) : s \in Student})

\* str.strip
RECURSIVE strip(_)
strip(s) ==
    IF s = <<>> THEN s
    ELSE IF Head(s) = " " THEN strip(Tail(s))
    ELSE IF s[Len(s)] = " " THEN strip(SubSeq(s, 1, Len(s) - 1))
    ELSE s

\* validate_college_name: College.objects.get(name__iexact=value.strip())
validate_college_name(value) == GetCollege(strip(value))

\* the rows that get(college=college, student_id=student_id) matches
StudentRowsOf(tbl, college, student_id) ==
    Count(tbl, LAMBDA r : r.college = college /\ r.student_id = student_id)

\* Student without its UniqueConstraint
unique_college_studentid_Never(tbl, college, student_id) == FALSE

\* unique_college_studentid, checked by the INSERT
unique_college_studentid(tbl, college, student_id) ==
    StudentRowsOf(tbl, college, student_id) > 0

Idle ==
    [pc |-> "idle", college_name |-> <<>>, student_id |-> "", name |-> "",
     college |-> "None", status |-> 0, detail |-> ""]

\* the Response of register_student: 201, or the 400 of a ValidationError
Registered(r) == [r EXCEPT !.pc = "done", !.status = 201]

Refused(r, detail) == [r EXCEPT !.pc = "done", !.status = 400, !.detail = detail]

\* serializer.is_valid(raise_exception=True)
RegisterValidate(w) ==
    /\ reg[w].pc = "idle"
    /\ \E college_name \in RegCollegeNames, student_id \in StudentIds, name \in RegNames :
          LET r == [reg[w] EXCEPT !.college_name = college_name,
                                  !.student_id = student_id, !.name = name]
          IN  IF validate_college_name(college_name) = {}
              THEN reg' = [reg EXCEPT ![w] = Refused(r, "college")]
              ELSE reg' = [reg EXCEPT ![w] =
                              [r EXCEPT !.pc = "get",
                                        !.college = CHOOSE c \in
                                            validate_college_name(college_name) : TRUE]]
    /\ UNCHANGED students
    /\ UNCHANGED submission_vars
    /\ UNCHANGED authoring_vars
    /\ UNCHANGED concurrent_vars

\* get_or_create: the SELECT; a row found is returned with created = False
\* and create() raises the ValidationError of line 36
RegisterGet(w) ==
    /\ reg[w].pc = "get"
    /\ IF StudentRowsOf(students, reg[w].college, reg[w].student_id) > 0
       THEN reg' = [reg EXCEPT ![w] = Refused(reg[w], "exists")]
       ELSE reg' = [reg EXCEPT ![w].pc = "create"]
    /\ UNCHANGED students
    /\ UNCHANGED submission_vars
    /\ UNCHANGED authoring_vars
    /\ UNCHANGED concurrent_vars

\* get_or_create: the INSERT.  On IntegrityError it selects again: a row
\* found is returned with created = False (line 36); under an isolation
\* level that hides the row the IntegrityError is raised again (line 39).
RegisterCreate(w) ==
    /\ reg[w].pc = "create"
    /\ IF unique_college_studentid(students, reg[w].college, reg[w].student_id)
       THEN /\ \E detail \in {"exists", "concurrent"} :
                  reg' = [reg EXCEPT ![w] = Refused(reg[w], detail)]
            /\ UNCHANGED students
       ELSE /\ students' = students (+) SetToBag({StudentRow(reg[w].college,
                                                  reg[w].student_id, reg[w].name)})
            /\ reg' = [reg EXCEPT ![w] = Registered(reg[w])]
    /\ UNCHANGED submission_vars
    /\ UNCHANGED authoring_vars
    /\ UNCHANGED concurrent_vars

\* the client takes the Response
RegisterReturn(w) ==
    /\ reg[w].pc = "done"
    /\ reg' = [reg EXCEPT ![w] = Idle]
    /\ UNCHANGED students
    /\ UNCHANGED submission_vars
    /\ UNCHANGED authoring_vars
    /\ UNCHANGED concurrent_vars

NextRegister ==
    \E w \in Worker :
        RegisterValidate(w) \/ RegisterGet(w) \/ RegisterCreate(w) \/ RegisterReturn(w)

(***************************************************************************)
(* Authoring of questions: Question.save() and its post_save receiver      *)
(* create_default_options.  The tables start as the catalogue.             *)
(***************************************************************************)
QuestionRow(id, section, text) == [id |-> id, section |-> section, text |-> text]

OptionRow(id, question, text, correct) ==
    [id |-> id, question |-> question, text |-> text, is_correct |-> correct]

CatalogueQuestions == {QuestionRow(q, QuestionSection[q], QuestionText[q]) : q \in Question}

CatalogueOptions ==
    {OptionRow(o, OptionQuestion[o], OptionText[o], is_correct[o]) : o \in Option}

\* what an author may type as the text of a question
AuthoredTexts == {"Wifi?", "Mess?"}

\* the AutoField of a table: one more than the highest id
next_id(tbl) ==
    IF tbl = {} THEN 1
    ELSE 1 + CHOOSE n \in {r.id : r \in tbl} : \A r \in tbl : r.id <= n

\* Option.objects.bulk_create([Option(question=instance, text=o.text) ...]):
\* one row for each text, in the order of the list; is_correct is its default
bulk_create_options(opts, question_id, texts) ==
    opts \cup {OptionRow(next_id(opts) + i - 1, question_id, texts[i], FALSE) :
                  i \in DOMAIN texts}

\* the receiver without its test of `created`
create_default_options_EverySave(opts, instance, created) ==
    IF ~has_correct_answers[SectionCategory[instance.section]]
    THEN IF subjective_option_template[instance.section] # "None"
         THEN IF TemplateOptions[subjective_option_template[instance.section]] # <<>>
              THEN bulk_create_options(opts, instance.id,
                       TemplateOptions[subjective_option_template[instance.section]])
              ELSE opts
         ELSE opts
    ELSE opts

\* the receiver without its test of has_correct_answers
create_default_options_AnyCategory(opts, instance, created) ==
    IF created
    THEN IF subjective_option_template[instance.section] # "None"
         THEN IF TemplateOptions[subjective_option_template[instance.section]] # <<>>
              THEN bulk_create_options(opts, instance.id,
                       TemplateOptions[subjective_option_template[instance.section]])
              ELSE opts
         ELSE opts
    ELSE opts

\* @receiver(post_save, sender=Question)
create_default_options(opts, instance, created) ==
    IF created /\ ~has_correct_answers[SectionCategory[instance.section]]
    THEN IF subjective_option_template[instance.section] # "None"
         THEN IF TemplateOptions[subjective_option_template[instance.section]] # <<>>
              THEN bulk_create_options(opts, instance.id,
                       TemplateOptions[subjective_option_template[instance.section]])
              ELSE opts
         ELSE opts
    ELSE opts

NoSave == [op |-> "none", question |-> 0, pre_options |-> {}]

\* Question.objects.create(section=section, text=text): the INSERT, then the
\* post_save signal with created = True
CreateQuestion ==
    /\ Cardinality(questions) < Cardinality(Question) + MaxAuthored
    /\ \E section \in Section, text \in AuthoredTexts :
          LET instance == QuestionRow(next_id(questions), section, text)
          IN  /\ questions' = questions \cup {instance}
              /\ options' = create_default_options(options, instance, TRUE)
              /\ saved' = [op |-> "create", question |-> instance.id,
                           pre_options |-> options]
    /\ UNCHANGED submission_vars
    /\ UNCHANGED registration_vars
    /\ UNCHANGED concurrent_vars

\* save() of a stored question whose section or text was changed: the
\* UPDATE, then the post_save signal with created = False.  The questions
\* of the catalogue stay as the submission pipeline reads them: the saves are
\* those of the questions authored on top of it.
SaveQuestion ==
    /\ \E old \in {q \in questions : q.id \notin Question}, section \in Section :
       \E text \in AuthoredTexts \cup {old.text} :
          LET instance == QuestionRow(old.id, section, text)
          IN  /\ questions' = (questions \ {old}) \cup {instance}
              /\ options' = create_default_options(options, instance, FALSE)
              /\ saved' = [op |-> "update", question |-> instance.id,
                           pre_options |-> options]
    /\ UNCHANGED submission_vars
    /\ UNCHANGED registration_vars
    /\ UNCHANGED concurrent_vars

NextAuthor == CreateQuestion \/ SaveQuestion

(***************************************************************************)
(* The state machine.                                                      *)
(***************************************************************************)
NoCall ==
    [op |-> "none", college_name |-> <<>>, student_id |-> "", responses_data |-> <<>>,
     raised |-> "None", status |-> 0, created |-> 0, updated |-> 0,
     missing_questions |-> {}, missing_options |-> {}, mismatch |-> <<>>,
     pre_responses |-> EmptyBag, pre_results |-> EmptyBag, body |-> <<>>]

Call(op, college_name, student_id, responses_data, out) ==
    [op |-> op, college_name |-> college_name, student_id |-> student_id,
     responses_data |-> responses_data,
     raised |-> out.raised, status |-> out.status,
     created |-> out.created, updated |-> out.updated,
     missing_questions |-> out.missing_questions,
     missing_options |-> out.missing_options, mismatch |-> out.mismatch,
     pre_responses |-> responses, pre_results |-> results, body |-> <<>>]

\* A request that resolves to no student is refused before the pairs of its
\* batch are read: such requests carry the batches of at most one pair.
BatchesOf(college_name, student_id) ==
    IF Requester(college_name, student_id) # {} THEN Batches
    ELSE {b \in Batches : Len(b) <= 1}

\* a submit call that runs next to another one, before it starts
NoLoop == [selected |-> <<>>, to_create |-> <<>>, to_update |-> <<>>,
           touched |-> {}, mismatch |-> <<>>]

IdleCall(op) ==
    [pc |-> "idle", op |-> op, college_name |-> <<>>, student_id |-> "",
     college |-> "None", student |-> "", responses_data |-> <<>>, i |-> 1,
     st |-> NoLoop, written |-> 0,
     inserted |-> 0, pending |-> {}, scores |-> <<>>, upserts |-> <<>>,
     section_ids |-> {}, repeated |-> FALSE, error |-> "None",
     raised |-> "None", status |-> 0, created |-> 0, updated |-> 0,
     pre_responses |-> EmptyBag, pre_results |-> EmptyBag]

Init ==
    /\ calls = [w \in Worker |-> IdleCall("")]
    /\ responses = EmptyBag
    /\ results = EmptyBag
    /\ last = NoCall
    /\ students = RegisteredStudents
    /\ reg = [w \in Worker |-> Idle]
    /\ questions = CatalogueQuestions
    /\ options = CatalogueOptions
    /\ saved = NoSave

\* POST submit-answers/<college_name>/<student_id>/
SubmitView ==
    /\ last.op = "none"
    /\ \E college_name \in CollegeNames, student_id \in StudentIds :
         \E responses_data \in BatchesOf(college_name, student_id) :
            LET out == submit_responses(responses, results, college_name,
                                        student_id, responses_data)
            IN  /\ responses' = out.responses
                /\ results' = out.results
                /\ last' = Call("submit_responses", college_name, student_id,
                                responses_data, out)
    /\ UNCHANGED registration_vars
    /\ UNCHANGED authoring_vars
    /\ UNCHANGED concurrent_vars

\* SurveySubmissionService(college_name, student_id, responses_data).process_submission()
SubmitService ==
    /\ last.op = "none"
    /\ \E college_name \in CollegeNames, student_id \in StudentIds :
         \E responses_data \in BatchesOf(college_name, student_id) :
            LET out == process_submission(responses, results, college_name,
                                          student_id, responses_data)
            IN  /\ responses' = out.responses
                /\ results' = out.results
                /\ last' = Call("process_submission", college_name, student_id,
                                responses_data, out)
    /\ UNCHANGED registration_vars
    /\ UNCHANGED authoring_vars
    /\ UNCHANGED concurrent_vars

\* GET students/<college_name>/<student_id>/results/
GetResults ==
    /\ last.op = "none"
    /\ \E college_name \in CollegeNames, student_id \in StudentIds :
         LET out == get_student_results(responses, results, college_name, student_id)
         IN  last' = [NoCall EXCEPT !.op = "get_student_results",
                                    !.college_name = college_name,
                                    !.student_id = student_id,
                                    !.raised = out.raised,
                                    !.status = IF out.raised = "None" THEN 200 ELSE 0,
                                    !.pre_responses = responses,
                                    !.pre_results = results,
                                    !.body = out.body]
    /\ UNCHANGED <<responses, results>>
    /\ UNCHANGED registration_vars
    /\ UNCHANGED authoring_vars
    /\ UNCHANGED concurrent_vars

\* time passes: what was written "now" has been written earlier
Age(tbl) == MapRows(tbl, LAMBDA r : [r EXCEPT !.submitted_at = "earlier"])

\* the client takes the outcome; the next call comes later
Return ==
    /\ last.op # "none"
    /\ last' = NoCall
    /\ responses' = Age(responses)
    /\ UNCHANGED results
    /\ UNCHANGED registration_vars
    /\ UNCHANGED authoring_vars
    /\ UNCHANGED concurrent_vars

Next == SubmitView \/ SubmitService \/ GetResults \/ Return

Spec == Init /\ [][Next]_vars

\* the registration endpoint, served by the two workers
SpecRegister == Init /\ [][NextRegister]_vars

\* the authoring of questions
SpecAuthor == Init /\ [][NextAuthor]_vars

(***************************************************************************)
(* The option formset of the question pages of the admin: QuestionAdmin    *)
(* shows the options of a question inline, OptionInlineFormSet.clean       *)
(* decides whether the submission is accepted, and an accepted submission  *)
(* is saved: the question first (add page), then the forms.                *)
(***************************************************************************)
\* the forms an author may fill beyond those of the stored options
MaxNewForms == 2

\* the option rows an author may add on top of the catalogue
MaxNewOptions == 2

\* the questions an author may add through the add page
MaxAddedQuestions == 1

\* one form of the formset: id is the stored option of the form (0 for an
\* extra form), DELETE its delete box, changed what has_changed() answers,
\* text and is_correct its cleaned data
OptionForm(id, delete, changed, text, correct) ==
    [id |-> id, DELETE |-> delete, changed |-> changed, text |-> text,
     is_correct |-> correct]

\* what an author can do with the form of a stored option: leave it, tick
\* its delete box, or change its text or its is_correct box
FormsOfOption(o) ==
    {OptionForm(o.id, FALSE, FALSE, o.text, o.is_correct),
     OptionForm(o.id, TRUE, TRUE, o.text, o.is_correct),
     OptionForm(o.id, FALSE, TRUE, IF o.text = "Edited" THEN "New" ELSE "Edited",
                o.is_correct),
     OptionForm(o.id, FALSE, TRUE, o.text, ~o.is_correct)}

\* an extra form that was filled
ExtraForms == {OptionForm(0, FALSE, TRUE, "New", c) : c \in BOOLEAN}

\* the stored options of a question, by id: the queryset of the formset
RECURSIVE OptionsById(_)
OptionsById(opts) ==
    IF opts = {} THEN <<>>
    ELSE LET first == CHOOSE o \in opts : \A x \in opts : o.id <= x.id
         IN  <<first>> \o OptionsById(opts \ {first})

\* the formsets an author can submit for these stored options: one form for
\* each stored option, then the extra forms that were filled
FormsetsOf(stored) ==
    LET initial == OptionsById(stored)
    IN  {f \o g : f \in {x \in [DOMAIN initial -> UNION {FormsOfOption(o) : o \in stored}] :
                            \A i \in DOMAIN initial : x[i] \in FormsOfOption(initial[i])},
                  g \in SeqsUpTo(ExtraForms, MaxNewForms)}

\* self.can_delete of an inline formset
can_delete == TRUE

\* self._should_delete_form(form)
should_delete_form(form) == form.DELETE

\* the forms the loop of clean counts
CountedForms(forms) ==
    {i \in DOMAIN forms :
        /\ ~(can_delete /\ should_delete_form(forms[i]))
        /\ forms[i].changed}

\* OptionInlineFormSet.clean for a question of the section: the
\* ValidationError it raises, or "None"
clean(section, forms) ==
    LET total_options_count == Cardinality(CountedForms(forms))
        correct_answers_count ==
            Cardinality({i \in CountedForms(forms) : forms[i].is_correct})
    IN  IF has_correct_answers[SectionCategory[section]]
        THEN IF total_options_count = 0 THEN "at least one answer option"
             ELSE IF correct_answers_count = 0 THEN "select one correct answer"
             ELSE IF correct_answers_count > 1 THEN "only one correct answer"
             ELSE "None"
        ELSE IF subjective_option_template[section] = "None" /\ total_options_count = 0
             THEN "add the answer options manually"
             ELSE "None"

\* formset.save(): the stored options whose delete box is ticked are
\* deleted, those whose form was changed are updated, and each extra form
\* that was changed and is not to be deleted is inserted
RECURSIVE save_formset(_, _, _, _)
save_formset(opts, question_id, forms, i) ==
    IF i > Len(forms) THEN opts
    ELSE LET form == forms[i]
             kept == {o \in opts : o.id # form.id}
             after ==
                 IF form.id # 0
                 THEN IF should_delete_form(form) THEN kept
                      ELSE IF form.changed
                           THEN kept \cup {OptionRow(form.id, question_id, form.text,
                                                     form.is_correct)}
                           ELSE opts
                 ELSE IF form.changed /\ ~(can_delete /\ should_delete_form(form))
                      THEN opts \cup {OptionRow(next_id(opts), question_id, form.text,
                                                form.is_correct)}
                      ELSE opts
         IN  save_formset(after, question_id, forms, i + 1)

\* question.options: the stored options of the question of the page
question_options(opts, question_id) == {o \in opts : o.question = question_id}

\* the highest id an option row of the model gets
MaxOptionId == 7 + MaxNewOptions

Submission(op, question_id, forms, error, pre) ==
    [op |-> op, question |-> question_id, pre_options |-> pre, forms |-> forms,
     error |-> error]

\* the add page of QuestionAdmin: the question form with the option forms,
\* all of them extra.  A refused formset saves nothing; an accepted one
\* saves the question (with its post_save signal) and then the forms.
AddQuestionPage ==
    /\ Cardinality(questions) < Cardinality(Question) + MaxAddedQuestions
    /\ \E section \in Section, forms \in FormsetsOf({}) :
          LET instance == QuestionRow(next_id(questions), section, "Wifi?")
              error == clean(section, forms)
              created == create_default_options(options, instance, TRUE)
          IN  /\ questions' = IF error = "None" THEN questions \cup {instance}
                                                ELSE questions
              /\ options' = IF error = "None"
                            THEN save_formset(created, instance.id, forms, 1)
                            ELSE options
              /\ saved' = Submission("add", instance.id, forms, error, options)
    /\ \A o \in options' : o.id <= MaxOptionId
    /\ UNCHANGED submission_vars
    /\ UNCHANGED registration_vars
    /\ UNCHANGED concurrent_vars

\* the questions whose change page is submitted: those added through the add
\* page (the questions of the catalogue stay as the submission pipeline
\* reads them)
Edited == {q \in questions : q.id \notin Question}

\* the change page of QuestionAdmin, submitted with the question itself as
\* it is stored: a refused formset saves nothing, an accepted one saves the
\* question (post_save with created = False) and then the forms
ChangeQuestionPage ==
    /\ \E instance \in Edited :
       \E forms \in FormsetsOf(question_options(options, instance.id)) :
          LET error == clean(instance.section, forms)
          IN  /\ options' = IF error = "None"
                            THEN save_formset(create_default_options(options, instance, FALSE),
                                              instance.id, forms, 1)
                            ELSE options
              /\ saved' = Submission("change", instance.id, forms, error, options)
    /\ \A o \in options' : o.id <= MaxOptionId
    /\ UNCHANGED questions
    /\ UNCHANGED submission_vars
    /\ UNCHANGED registration_vars
    /\ UNCHANGED concurrent_vars

NextFormset == AddQuestionPage \/ ChangeQuestionPage

\* the question pages of the admin
SpecFormset == Init /\ [][NextFormset]_vars

(***************************************************************************)
(* Two submit calls at the same time.  The store runs each atomic block as *)
(* a transaction at its default isolation level, READ COMMITTED: a         *)
(* statement sees what is committed when it starts and the writes of its   *)
(* own transaction; a row that a transaction has written is locked until   *)
(* that transaction ends, and so is a unique key it has inserted.  The     *)
(* statements are steps of their own, and the INSERT of bulk_create takes  *)
(* the keys of its rows one after the other.  `responses` and `results`    *)
(* are the committed tables.  The calls are those of the registered        *)
(* student S-1 of college "Al", with answers to the scored questions.      *)
(***************************************************************************)
ConcurrentPairs ==
    {a \in AnswerPairs : has_correct_answers[CategoryOf(a.question_id)]}

ConcurrentBatches == SeqsUpTo(ConcurrentPairs, MaxConcurrentBatch) \ {<<>>}

\* the statement of the atomic block that runs next: the ifs of the block
AfterInsert(c) == IF c.pending # {} THEN "count" ELSE "commit"

AfterBulkUpdate(c) == IF c.st.to_create # <<>> THEN "insert" ELSE AfterInsert(c)

FirstStatement(c) == IF c.st.to_update # <<>> THEN "update" ELSE AfterBulkUpdate(c)

\* the call ends with exception exc: the view answers with the status of
\* its except clause, the service lets the exception out
Ended(c, exc) ==
    IF c.op = "submit_responses"
    THEN [c EXCEPT !.pc = "done", !.error = exc, !.status = ExceptStatus(exc)]
    ELSE [c EXCEPT !.pc = "done", !.error = exc, !.raised = exc]

\* the call returns: the view answers 201, the service returns the counts
Returned(c) ==
    [c EXCEPT !.pc = "done",
              !.status = IF c.op = "submit_responses" THEN 201 ELSE 0,
              !.created = Len(c.st.to_create), !.updated = Len(c.st.to_update)]

\* the statements before the atomic block: the checks, the one read of the
\* stored responses and the loop
StartSubmit(w) ==
    /\ calls[w].pc = "idle"
    /\ \E responses_data \in ConcurrentBatches :
          LET college == CHOOSE c \in GetCollege(<<"A", "L">>) : TRUE
              student == CHOOSE s \in GetStudent("S-1", college) : TRUE
              st == Loop(responses_data, 1, LoopStart(responses, student, responses_data))
              c == [calls[w] EXCEPT !.student = student,
                                    !.responses_data = responses_data,
                                    !.st = st, !.pending = st.touched,
                                    !.pre_responses = responses,
                                    !.pre_results = results]
          IN  IF validate_completeness(responses_data, college) \/ st.mismatch # <<>>
              THEN calls' = [calls EXCEPT ![w] =
                               Ended(c, IF c.op = "submit_responses"
                                        THEN "ValidationError" ELSE "ValueError")]
              ELSE calls' = [calls EXCEPT ![w] = [c EXCEPT !.pc = FirstStatement(c)]]
    /\ UNCHANGED submission_vars
    /\ UNCHANGED registration_vars
    /\ UNCHANGED authoring_vars

\* the transaction of a call is open
InTransaction(c) == c.pc \in {"update", "insert", "count", "upsert", "commit"}

\* the locks a transaction holds: the rows its UPDATE wrote, the keys its
\* INSERT has taken so far, the result rows it wrote
HeldUpdates(c) ==
    IF c.pc \in {"insert", "count", "upsert", "commit"}
    THEN {<<c.student, q>> : q \in Range(c.st.to_update)}
    ELSE {}

InsertedKeys(c) == {c.st.to_create[i].question_id : i \in 1..c.inserted}

HeldInserts(c) ==
    IF InTransaction(c) THEN {<<c.student, q>> : q \in InsertedKeys(c)} ELSE {}

HeldResults(c) ==
    IF InTransaction(c) THEN {<<c.student, sec>> : sec \in DOMAIN c.upserts} ELSE {}

\* the section the next update_or_create writes
UpsertSection(c) ==
    IF c.op = "submit_responses"
    THEN CHOOSE sec \in DOMAIN c.scores : TRUE
    ELSE CHOOSE sec \in c.pending : TRUE

\* the locks the next statement of a call needs
Needed(c) ==
    CASE c.pc = "update" -> {<<c.student, q>> : q \in Range(c.st.to_update)}
      [] c.pc = "insert" -> {<<c.student, c.st.to_create[c.inserted + 1].question_id>>}
      [] c.pc = "upsert" -> {<<c.student, UpsertSection(c)>>}
      [] OTHER -> {}

\* call c waits for a lock that call d holds
WaitsFor(c, d) ==
    CASE c.pc = "update" -> Needed(c) \cap HeldUpdates(d) # {}
      [] c.pc = "insert" -> Needed(c) \cap HeldInserts(d) # {}
      [] c.pc = "upsert" -> Needed(c) \cap HeldResults(d) # {}
      [] OTHER -> FALSE

Blocked(w) == \E v \in Worker \ {w} : WaitsFor(calls[w], calls[v])

\* what the statements of a transaction see: the committed table with the
\* rows its UPDATE wrote and the rows its INSERT has added
Visible(tbl, c) ==
    InsertAll(IF c.pc \in {"insert", "count", "upsert", "commit"}
              THEN AfterUpdate(tbl, c.student, c.st) ELSE tbl,
              c.student, SubSeq(c.st.to_create, 1, c.inserted), 1)

\* the committed rows of a (student, question) key
RowsOfKey(tbl, s, q) == Count(tbl, LAMBDA r : r.student = s /\ r.question = q)

\* bulk_update: one UPDATE, which waits for the rows another transaction
\* has locked
RunBulkUpdate(w) ==
    /\ calls[w].pc = "update"
    /\ ~Blocked(w)
    /\ calls' = [calls EXCEPT ![w] =
          [calls[w] EXCEPT !.pc = AfterBulkUpdate(calls[w]), !.written = @ + 1]]
    /\ UNCHANGED submission_vars
    /\ UNCHANGED registration_vars
    /\ UNCHANGED authoring_vars

\* bulk_create: the next row of the INSERT.  A key that is committed, or
\* that an earlier row of the statement took, is a unique violation: the
\* IntegrityError leaves the atomic block, which rolls back.  A key that
\* another transaction has taken makes the statement wait.
InsertRow(w) ==
    /\ calls[w].pc = "insert"
    /\ LET c == calls[w]
           q == c.st.to_create[c.inserted + 1].question_id
       IN  IF RowsOfKey(responses, c.student, q) > 0 \/ q \in InsertedKeys(c)
           THEN calls' = [calls EXCEPT ![w] = Ended(c, "IntegrityError")]
           ELSE /\ ~Blocked(w)
                /\ calls' = [calls EXCEPT ![w] =
                      [c EXCEPT !.inserted = c.inserted + 1, !.written = @ + 1,
                                !.pc = IF c.inserted + 1 = Len(c.st.to_create)
                                       THEN AfterInsert(c) ELSE "insert"]]
    /\ UNCHANGED submission_vars
    /\ UNCHANGED registration_vars
    /\ UNCHANGED authoring_vars

\* two transactions wait for each other: the store ends one of them with
\* "deadlock detected", an OperationalError, and rolls it back
DeadlockVictim(w) ==
    /\ \E v \in Worker \ {w} :
          WaitsFor(calls[w], calls[v]) /\ WaitsFor(calls[v], calls[w])
    /\ calls' = [calls EXCEPT ![w] = Ended(calls[w], "OperationalError")]
    /\ UNCHANGED submission_vars
    /\ UNCHANGED registration_vars
    /\ UNCHANGED authoring_vars

\* the count of the view for one touched section, the grouped aggregate of
\* the service for all of them
RunCount(w) ==
    /\ calls[w].pc = "count"
    /\ LET c == calls[w]
           section_id == CHOOSE sec \in c.pending : TRUE
       IN  calls' = [calls EXCEPT ![w] =
              [c EXCEPT !.pc = "upsert",
                        !.scores =
                           IF c.op = "submit_responses"
                           THEN section_id :> CorrectCount(Visible(responses, c),
                                                           c.student, section_id)
                           ELSE scores_map(Visible(responses, c), c.student,
                                           c.st.touched)]]
    /\ UNCHANGED submission_vars
    /\ UNCHANGED registration_vars
    /\ UNCHANGED authoring_vars

\* update_or_create: it waits for the result row, or for its key, while
\* another transaction holds it, then updates the row or inserts it
RunUpsert(w) ==
    /\ calls[w].pc = "upsert"
    /\ ~Blocked(w)
    /\ LET c == calls[w]
           section_id == UpsertSection(c)
           left == c.pending \ {section_id}
       IN  calls' = [calls EXCEPT ![w] =
              [c EXCEPT !.upserts = (section_id :> score_of(c.scores, section_id)) @@ @,
                        !.pending = left, !.written = @ + 1,
                        !.pc = IF left = {} THEN "commit"
                               ELSE IF c.op = "submit_responses" THEN "count"
                               ELSE "upsert"]]
    /\ UNCHANGED submission_vars
    /\ UNCHANGED registration_vars
    /\ UNCHANGED authoring_vars

\* the result rows a transaction wrote, on the committed table
RECURSIVE WithUpserts(_, _, _)
WithUpserts(res, student, upserts) ==
    IF DOMAIN upserts = {} THEN res
    ELSE LET section_id == CHOOSE sec \in DOMAIN upserts : TRUE
         IN  WithUpserts(
                update_or_create(res, student, section_id, upserts[section_id]).table,
                student,
                [sec \in DOMAIN upserts \ {section_id} |-> upserts[sec]])

\* the end of the atomic block: the writes of the transaction are committed
CommitSubmit(w) ==
    /\ calls[w].pc = "commit"
    /\ responses' = Visible(responses, calls[w])
    /\ results' = WithUpserts(results, calls[w].student, calls[w].upserts)
    /\ calls' = [calls EXCEPT ![w] = Returned(calls[w])]
    /\ UNCHANGED last
    /\ UNCHANGED registration_vars
    /\ UNCHANGED authoring_vars

NextConcurrent ==
    \E w \in Worker :
        \/ StartSubmit(w)
        \/ RunBulkUpdate(w)
        \/ InsertRow(w)
        \/ DeadlockVictim(w)
        \/ RunCount(w)
        \/ RunUpsert(w)
        \/ CommitSubmit(w)

\* The tables before the two calls: empty, or as an earlier call of the
\* student left them.  Both calls are calls of the view or both of the service.
InitConcurrent ==
    /\ \E prior \in SeqsUpTo(ConcurrentPairs, MaxConcurrentBatch) :
          /\ responses = Age(process_submission(EmptyBag, EmptyBag, <<"A", "L">>,
                                                "S-1", prior).responses)
          /\ results = process_submission(EmptyBag, EmptyBag, <<"A", "L">>,
                                          "S-1", prior).results
    /\ \E op \in {"submit_responses", "process_submission"} :
          calls = [w \in Worker |-> IdleCall(op)]
    /\ last = NoCall
    /\ students = RegisteredStudents
    /\ reg = [w \in Worker |-> Idle]
    /\ questions = CatalogueQuestions
    /\ options = CatalogueOptions
    /\ saved = NoSave

\* two submit calls at the same time
SpecConcurrent == InitConcurrent /\ [][NextConcurrent]_vars

(***************************************************************************)
(* One submit call, statement by statement: the lookups, the check of the  *)
(* ids, the loop over the pairs, then the statements of the atomic block   *)
(* (the steps of the section above, with no other call beside it).         *)
(* `written` counts the write statements the call has run, `error` is the  *)
(* exception it ended with.                                                *)
(***************************************************************************)
Answer(q, o) == [question_id |-> q, selected_option_id |-> o]

\* the pairs of a call: the arbitrary pairs and a second scored question
StepPairs == Pairs \cup {Answer(2, 3)}

StepBatches == SeqsUpTo(StepPairs, MaxBatch)

\* the tables before the call: what earlier calls of the student and of
\* another student of the college left
PriorOfStudent == {<<>>, <<Answer(1, 2), Answer(3, 5)>>, <<Answer(1, 1), Answer(2, 3)>>}

PriorOfOther == {<<>>, <<Answer(1, 1), Answer(3, 6)>>}

PriorTables(a, b) ==
    process_submission(
        process_submission(EmptyBag, EmptyBag, <<"A", "L">>, "S-3", b).responses,
        process_submission(EmptyBag, EmptyBag, <<"A", "L">>, "S-3", b).results,
        <<"A", "L">>, "S-1", a)

InitSteps ==
    /\ \E a \in PriorOfStudent, b \in PriorOfOther :
          /\ responses = Age(PriorTables(a, b).responses)
          /\ results = PriorTables(a, b).results
    /\ \E op \in {"submit_responses", "process_submission"} :
          calls = [w \in Worker |-> IdleCall(op)]
    /\ last = NoCall
    /\ students = RegisteredStudents
    /\ reg = [w \in Worker |-> Idle]
    /\ questions = CatalogueQuestions
    /\ options = CatalogueOptions
    /\ saved = NoSave

\* the 400 of the view, the ValueError of the service
Invalid(c) ==
    Ended(c, IF c.op = "submit_responses" THEN "ValidationError" ELSE "ValueError")

\* is_valid of the view, then the two get_object_or_404
Resolve(c) ==
    IF c.op = "submit_responses" /\ ~is_valid(c.responses_data)
    THEN Ended(c, "ValidationError")
    ELSE IF GetCollege(c.college_name) = {} THEN Ended(c, "Http404")
    ELSE IF GetStudent(c.student_id, CHOOSE x \in GetCollege(c.college_name) : TRUE) = {}
    THEN Ended(c, "Http404")
    ELSE [c EXCEPT !.pc = "ids",
                   !.college = CHOOSE x \in GetCollege(c.college_name) : TRUE,
                   !.student = CHOOSE s \in GetStudent(c.student_id,
                                   CHOOSE x \in GetCollege(c.college_name) : TRUE) : TRUE]

BeginCall(w) ==
    /\ calls[w].pc = "idle"
    /\ \E college_name \in CollegeNames, student_id \in StudentIds,
          responses_data \in StepBatches :
          calls' = [calls EXCEPT ![w] =
             Resolve([calls[w] EXCEPT !.college_name = college_name,
                               !.student_id = student_id,
                               !.responses_data = responses_data,
                               !.pre_responses = responses,
                               !.pre_results = results])]
    /\ UNCHANGED submission_vars
    /\ UNCHANGED registration_vars
    /\ UNCHANGED authoring_vars

\* the loop goes on, or it is over and the atomic block begins
AfterPair(c) ==
    IF c.i > Len(c.responses_data)
    THEN [c EXCEPT !.pc = FirstStatement([c EXCEPT !.pending = c.st.touched]),
                   !.pending = c.st.touched]
    ELSE [c EXCEPT !.pc = "loop"]

\* the check of the missing ids, then the read of the stored responses
CheckIds(w) ==
    /\ calls[w].pc = "ids"
    /\ LET c == calls[w]
       IN  calls' = [calls EXCEPT ![w] =
              IF validate_completeness(c.responses_data, c.college)
              THEN Invalid(c)
              ELSE AfterPair([c EXCEPT !.i = 1,
                      !.st = LoopStart(responses, c.student, c.responses_data)])]
    /\ UNCHANGED submission_vars
    /\ UNCHANGED registration_vars
    /\ UNCHANGED authoring_vars

\* a loop that saves each response as it meets it
PairStep_WriteThrough(c) ==
    IF NotBelongs(c.responses_data[c.i].selected_option_id,
                  c.responses_data[c.i].question_id)
    THEN Invalid([c EXCEPT !.st.mismatch =
                     <<c.responses_data[c.i].selected_option_id,
                       c.responses_data[c.i].question_id>>])
    ELSE AfterPair([c EXCEPT !.i = c.i + 1, !.written = @ + 1,
                     !.st = Reconcile(c.st, c.responses_data[c.i].question_id,
                                      c.responses_data[c.i].selected_option_id)])

\* one iteration of the loop: the integrity check of the pair, then its
\* place in the lists
PairStep(c) ==
    IF NotBelongs(c.responses_data[c.i].selected_option_id,
                  c.responses_data[c.i].question_id)
    THEN Invalid([c EXCEPT !.st.mismatch =
                     <<c.responses_data[c.i].selected_option_id,
                       c.responses_data[c.i].question_id>>])
    ELSE AfterPair([c EXCEPT !.i = c.i + 1,
                     !.st = Reconcile(c.st, c.responses_data[c.i].question_id,
                                      c.responses_data[c.i].selected_option_id)])

CheckPair(w) ==
    /\ calls[w].pc = "loop"
    /\ calls' = [calls EXCEPT ![w] = PairStep(calls[w])]
    /\ UNCHANGED submission_vars
    /\ UNCHANGED registration_vars
    /\ UNCHANGED authoring_vars

NextSteps ==
    \/ BeginCall(1)
    \/ CheckIds(1)
    \/ CheckPair(1)
    \/ RunBulkUpdate(1)
    \/ InsertRow(1)
    \/ RunCount(1)
    \/ RunUpsert(1)
    \/ CommitSubmit(1)

\* one submit call, statement by statement
SpecSteps == InitSteps /\ [][NextSteps]_vars

(***************************************************************************)
(* _recalculate_marks on its own.  The tables it finds: the responses of   *)
(* two students of one college to the scored questions, and any result     *)
(* rows, stale or not (the result rows can be edited in the admin, and a   *)
(* count can be stale), at most one for a student and a section.           *)
(***************************************************************************)
\* the students with responses and results; the first is the student of
\* the service object
RecalcStudents == {"st1", "st3"}

\* the stored marks a result row may hold
StoredMarks == 0..MaxStoredMarks

\* the response tables: one earlier batch of each student
RecalcResponseTables ==
    {Age(InsertAll(InsertAll(EmptyBag, "st1", a, 1), "st3", b, 1)) :
        a \in {x \in SeqsUpTo(ConcurrentPairs, MaxConcurrentBatch) :
                  Cardinality(question_ids_of(x)) = Len(x)},
        b \in {<<>>, <<[question_id |-> 1, selected_option_id |-> 1]>>}}

\* the result tables: a row or none of each student for the section that
\* holds the scored questions
RecalcResultTables ==
    {SetToBag({ResultRow(s, "sec1", f[s]) : s \in DOMAIN f}) :
        f \in UNION {[D -> StoredMarks] : D \in SUBSET RecalcStudents}}

\* the section ids of a call: of the section of the scored questions, of a
\* section of the subjective category, of a scored section without questions
RecalcSections == {"sec1", "sec2", "sec4"}

InitRecalculate ==
    /\ responses \in RecalcResponseTables
    /\ results \in RecalcResultTables
    /\ calls = [w \in Worker |-> IdleCall("_recalculate_marks")]
    /\ last = NoCall
    /\ students = RegisteredStudents
    /\ reg = [w \in Worker |-> Idle]
    /\ questions = CatalogueQuestions
    /\ options = CatalogueOptions
    /\ saved = NoSave

\* self._recalculate_marks(section_ids), for the student of the service
\* object; `repeated` tells that the call before it had the same arguments
Recalculate ==
    /\ \E section_ids \in SUBSET RecalcSections \ {{}} :
          LET student == "st1"
              w == recalculate_marks(responses, results, student, section_ids)
          IN  /\ results' = w.table
              /\ calls' = [calls EXCEPT ![1] =
                    [@ EXCEPT !.pc = "done", !.student = student,
                              !.section_ids = section_ids,
                              !.repeated = /\ calls[1].pc = "done"
                                           /\ calls[1].student = student
                                           /\ calls[1].section_ids = section_ids,
                              !.raised = w.raised,
                              !.pre_results = results]]
    /\ UNCHANGED <<responses, last>>
    /\ UNCHANGED registration_vars
    /\ UNCHANGED authoring_vars

NextRecalculate == Recalculate

\* the recalculation of marks, called any number of times
SpecRecalculate == InitRecalculate /\ [][NextRecalculate]_vars

(***************************************************************************)
(* Shape of the state.                                                     *)
(***************************************************************************)
TypeOK ==
    /\ IsABag(responses)
    /\ IsABag(results)
    /\ \A r \in BagToSet(responses) :
          r.student \in Student /\ r.question \in Question /\ r.selected_option \in Option
    /\ last.op \in {"none", "submit_responses", "process_submission",
                   "get_student_results"}

(***************************************************************************)
(* Vocabulary of the properties.                                           *)
(***************************************************************************)
Submitted == last.op \in {"submit_responses", "process_submission"}

\* the call committed: the view answered 201, the service returned
Succeeded ==
    /\ Submitted
    /\ last.raised = "None"
    /\ last.op = "submit_responses" => last.status = 201

Failed == Submitted /\ ~Succeeded

Resolved == Requester(last.college_name, last.student_id) # {}

Caller == CHOOSE s \in Requester(last.college_name, last.student_id) : TRUE

Batch == last.responses_data

RowsOf(tbl, s, q) == Count(tbl, LAMBDA r : r.student = s /\ r.question = q)

RowOf(tbl, s, q) == CHOOSE r \in BagToSet(tbl) : r.student = s /\ r.question = q

\* the number of responses of s in section sec whose option is correct
CorrectResponses(tbl, s, sec) ==
    BagCardinality([r \in {x \in BagToSet(tbl) :
                              /\ x.student = s
                              /\ QuestionSection[x.question] = sec
                              /\ is_correct[x.selected_option]} |-> tbl[r]])

Scored(sec) == has_correct_answers[SectionCategory[sec]]

\* the option the batch selects last for question q
LastChoice(b, q) ==
    b[CHOOSE i \in DOMAIN b :
        /\ b[i].question_id = q
        /\ \A j \in DOMAIN b : b[j].question_id = q => j <= i].selected_option_id

(***************************************************************************)
(* C1: every stored result of a scored section holds the number of the     *)
(* student's responses in that section whose selected option is correct.   *)
(***************************************************************************)
C1_TotalMarksIsCorrectCount ==
    \A r \in BagToSet(results) :
        Scored(r.section) =>
            r.total_marks = CorrectResponses(responses, r.student, r.section)

\* a resubmission that changed an answer of a section whose stored score
\* was 1 and is 2 afterwards
C1_Witness ==
    /\ Succeeded
    /\ last.updated = 1
    /\ ResultRow("st1", "sec1", 1) \in BagToSet(last.pre_results)
    /\ ResultRow("st1", "sec1", 2) \in BagToSet(results)

(***************************************************************************)
(* C2: a submit that ends in an error leaves both tables as they were      *)
(* before the call; a submit that succeeds has written every pair of the   *)
(* batch and a result for every scored section the batch touches.          *)
(***************************************************************************)
C2_AllOrNothing ==
    /\ Failed => responses = last.pre_responses /\ results = last.pre_results
    /\ Succeeded =>
          \A i \in DOMAIN Batch :
             LET q == Batch[i].question_id
             IN  /\ RowsOf(responses, Caller, q) = 1
                 /\ RowOf(responses, Caller, q).selected_option = LastChoice(Batch, q)
                 /\ Scored(QuestionSection[q]) =>
                       Count(results, LAMBDA r : r.student = Caller
                                 /\ r.section = QuestionSection[q]) = 1

\* a conflict raised by the insert after the update of an existing answer
\* had been written inside the same transaction
C2_Witness ==
    /\ Failed
    /\ last.status = 409 \/ last.raised = "IntegrityError"
    /\ \E i \in DOMAIN Batch :
          /\ RowsOf(last.pre_responses, Caller, Batch[i].question_id) = 1
          /\ RowOf(last.pre_responses, Caller, Batch[i].question_id).selected_option
                # Batch[i].selected_option_id

\* every id of the batch resolves for student s and every option belongs to
\* the question it is paired with
ValidBatch(s, b) ==
    /\ b # <<>>
    /\ \A i \in DOMAIN b :
          /\ b[i].question_id \in Question
          /\ CategoryCollege[SectionCategory[QuestionSection[b[i].question_id]]]
                = StudentCollege[s]
          /\ b[i].selected_option_id \in Option
          /\ OptionQuestion[b[i].selected_option_id] = b[i].question_id

DistinctQuestions(b) ==
    \A i, j \in DOMAIN b : i # j => b[i].question_id # b[j].question_id

NoPrior(tbl, s, b) == \A i \in DOMAIN b : RowsOf(tbl, s, b[i].question_id) = 0

AllAnswered(tbl, s, b) == \A i \in DOMAIN b : RowsOf(tbl, s, b[i].question_id) = 1

\* the table holds, for every pair of the batch, that option for that question
StoredIsBatch(tbl, s, b) ==
    \A i \in DOMAIN b :
        /\ RowsOf(tbl, s, b[i].question_id) = 1
        /\ RowOf(tbl, s, b[i].question_id).selected_option = b[i].selected_option_id

ValidSubmit == Submitted /\ Resolved /\ ValidBatch(Caller, Batch)

(***************************************************************************)
(* C3 as stated: every valid batch of N pairs, submitted with no prior     *)
(* response to its questions, returns (N, 0) and leaves the batch stored;  *)
(* submitted again, it returns (0, 0).                                     *)
(***************************************************************************)
C3_Original ==
    /\ ValidSubmit /\ NoPrior(last.pre_responses, Caller, Batch) =>
          /\ Succeeded
          /\ last.created = Len(Batch) /\ last.updated = 0
          /\ StoredIsBatch(responses, Caller, Batch)
    /\ ValidSubmit /\ StoredIsBatch(last.pre_responses, Caller, Batch) =>
          Succeeded /\ last.created = 0 /\ last.updated = 0

(***************************************************************************)
(* C3: every valid batch of N pairs with pairwise distinct question ids,   *)
(* submitted with no prior response to its questions, returns (N, 0) and   *)
(* leaves the batch stored; a submit of a valid batch that is stored       *)
(* already (the second submit of the same batch) returns (0, 0).           *)
(***************************************************************************)
C3_Idempotent ==
    /\ ValidSubmit /\ DistinctQuestions(Batch)
         /\ NoPrior(last.pre_responses, Caller, Batch) =>
          /\ Succeeded
          /\ last.created = Len(Batch) /\ last.updated = 0
          /\ StoredIsBatch(responses, Caller, Batch)
    /\ ValidSubmit /\ StoredIsBatch(last.pre_responses, Caller, Batch) =>
          Succeeded /\ last.created = 0 /\ last.updated = 0

\* the second submit of a batch of three answers
C3_Witness ==
    /\ ValidSubmit /\ DistinctQuestions(Batch) /\ Len(Batch) = 3
    /\ StoredIsBatch(last.pre_responses, Caller, Batch)
    /\ Succeeded /\ last.created = 0 /\ last.updated = 0

\* the pairs of the batch whose option differs from the stored one
ChangedPairs(tbl, s, b) ==
    {i \in DOMAIN b :
        RowOf(tbl, s, b[i].question_id).selected_option # b[i].selected_option_id}

\* getResults files question q under a subjective entry with option o
ReportsChoice(body, q, o) ==
    \E g \in body.results : \E e \in BagToSet(g.subjective) :
        /\ g.category = CategoryName[SectionCategory[QuestionSection[q]]]
        /\ e.section = SectionName[QuestionSection[q]]
        /\ [question |-> QuestionText[q], selected_option |-> OptionText[o]]
              \in BagToSet(e.responses)

\* getResults reports score n for the section of question q
ReportsScore(body, q, n) ==
    \E g \in body.results : \E e \in BagToSet(g.objective) :
        /\ g.category = CategoryName[SectionCategory[QuestionSection[q]]]
        /\ e.section = SectionName[QuestionSection[q]]
        /\ e.student_score = n

\* what a getResults that follows the submit returns
ResultsNow == final_response(responses, results, Caller)

\* the resubmission returned (0, 1) and getResults shows the new choice only
OneAnswerChanged(i) ==
    LET q == Batch[i].question_id
        new == Batch[i].selected_option_id
        old == RowOf(last.pre_responses, Caller, q).selected_option
    IN  /\ Succeeded
        /\ last.created = 0 /\ last.updated = 1
        /\ IF Scored(QuestionSection[q])
           THEN ReportsScore(ResultsNow, q,
                             CorrectResponses(responses, Caller, QuestionSection[q]))
           ELSE /\ ReportsChoice(ResultsNow, q, new)
                /\ ~ReportsChoice(ResultsNow, q, old)
        /\ RowOf(responses, Caller, q).selected_option = new

(***************************************************************************)
(* C4 as stated: a resubmission of answered questions in which exactly one *)
(* pair differs from the stored answer returns (0, 1) and getResults then  *)
(* reports the new selection and not the previous one.                     *)
(***************************************************************************)
C4_Original ==
    ValidSubmit /\ AllAnswered(last.pre_responses, Caller, Batch)
        /\ Cardinality(ChangedPairs(last.pre_responses, Caller, Batch)) = 1 =>
            \A i \in ChangedPairs(last.pre_responses, Caller, Batch) : OneAnswerChanged(i)

(***************************************************************************)
(* C4: a resubmission of answered questions, with pairwise distinct        *)
(* question ids, in which exactly one pair differs from the stored answer  *)
(* returns (0, 1); getResults then reports the new option and not the      *)
(* previous one (for a scored section, the score counted from the new      *)
(* selection).                                                             *)
(***************************************************************************)
C4_OneChange ==
    ValidSubmit /\ DistinctQuestions(Batch)
        /\ AllAnswered(last.pre_responses, Caller, Batch)
        /\ Cardinality(ChangedPairs(last.pre_responses, Caller, Batch)) = 1 =>
            \A i \in ChangedPairs(last.pre_responses, Caller, Batch) : OneAnswerChanged(i)

\* three answered questions resubmitted, the subjective answer changed
C4_Witness ==
    /\ ValidSubmit /\ DistinctQuestions(Batch) /\ Len(Batch) = 3
    /\ AllAnswered(last.pre_responses, Caller, Batch)
    /\ \E i \in DOMAIN Batch :
          /\ ChangedPairs(last.pre_responses, Caller, Batch) = {i}
          /\ ~Scored(QuestionSection[Batch[i].question_id])
          /\ OneAnswerChanged(i)

\* the college that owns question q, and section sec
OwnerOfQuestion(q) == CategoryCollege[SectionCategory[QuestionSection[q]]]

OwnerOfSection(sec) == CategoryCollege[SectionCategory[sec]]

\* the ids of batch b that do not resolve for student s
UnresolvedQuestions(s, b) ==
    {b[i].question_id : i \in DOMAIN b} \
        {q \in Question : OwnerOfQuestion(q) = StudentCollege[s]}

UnresolvedOptions(b) == {b[i].selected_option_id : i \in DOMAIN b} \ Option

\* the call was refused as a validation failure
RefusedAsInvalid ==
    /\ last.op = "submit_responses" => last.raised = "None" /\ last.status = 400
    /\ last.op = "process_submission" => last.raised = "ValueError"

Untouched == responses = last.pre_responses /\ results = last.pre_results

(***************************************************************************)
(* C5: a submit whose batch names a question of another college than the   *)
(* student's is refused with that question id reported as unresolved and   *)
(* writes nothing; every stored response and every stored result belongs   *)
(* to the college of its student.                                          *)
(***************************************************************************)
C5_TenantIsolation ==
    /\ Submitted /\ Resolved =>
          \A i \in DOMAIN Batch :
             LET q == Batch[i].question_id
             IN  q \in Question /\ OwnerOfQuestion(q) # StudentCollege[Caller] =>
                    /\ RefusedAsInvalid
                    /\ q \in last.missing_questions
                    /\ Untouched
    /\ \A r \in BagToSet(responses) : OwnerOfQuestion(r.question) = StudentCollege[r.student]
    /\ \A r \in BagToSet(results) : OwnerOfSection(r.section) = StudentCollege[r.student]

\* a student of the second college submits two well-formed answers to
\* questions of the first college, which holds responses already
C5_Witness ==
    /\ Submitted /\ Resolved /\ StudentCollege[Caller] = "c2"
    /\ Len(Batch) = 2 /\ ValidBatch("st1", Batch) /\ DistinctQuestions(Batch)
    /\ RefusedAsInvalid /\ Untouched
    /\ BagCardinality(responses) > 0

(***************************************************************************)
(* C6: there is at most one response for a student and a question; a       *)
(* successful submit adds as many rows as it reports created, and a pair   *)
(* for an answered question leaves that one row holding the option the     *)
(* batch selects, with a fresh timestamp when the option changed.          *)
(***************************************************************************)
C6_OneResponsePerQuestion ==
    /\ \A s \in Student, q \in Question : RowsOf(responses, s, q) <= 1
    /\ Succeeded =>
          /\ BagCardinality(responses)
                = BagCardinality(last.pre_responses) + last.created
          /\ \A i \in DOMAIN Batch :
                LET q == Batch[i].question_id
                IN  RowsOf(last.pre_responses, Caller, q) = 1 =>
                       /\ RowsOf(responses, Caller, q) = 1
                       /\ RowOf(responses, Caller, q).selected_option
                             = LastChoice(Batch, q)
                       /\ RowOf(responses, Caller, q).selected_option
                             # RowOf(last.pre_responses, Caller, q).selected_option
                          => RowOf(responses, Caller, q).submitted_at = "now"

\* a resubmission with another option, in a batch that also repeats a question
C6_Witness ==
    /\ Succeeded /\ Len(Batch) = 3 /\ ~DistinctQuestions(Batch)
    /\ last.created = 0 /\ last.updated > 0
    /\ \E i \in DOMAIN Batch :
          /\ RowsOf(last.pre_responses, Caller, Batch[i].question_id) = 1
          /\ RowOf(responses, Caller, Batch[i].question_id).selected_option
                # RowOf(last.pre_responses, Caller, Batch[i].question_id).selected_option
          /\ RowOf(responses, Caller, Batch[i].question_id).submitted_at = "now"

(***************************************************************************)
(* C7: the selected option of every stored response is an option of the    *)
(* question of that response.                                              *)
(***************************************************************************)
C7_OptionBelongsToQuestion ==
    \A r \in BagToSet(responses) : OptionQuestion[r.selected_option] = r.question

\* a submit that created one response and changed another
C7_Witness ==
    /\ Succeeded /\ last.created > 0 /\ last.updated > 0
    /\ \A i \in DOMAIN Batch :
          OptionQuestion[RowOf(responses, Caller, Batch[i].question_id).selected_option]
             = Batch[i].question_id

(***************************************************************************)
(* C8 as stated, for batches whose ids all resolve: a submit whose batch   *)
(* holds a pair whose option is not an option of its question fails as a   *)
(* validation failure that names the option id and the question id of     *)
(* that pair.                                                              *)
(***************************************************************************)
MismatchedPairs(s, b) ==
    {i \in DOMAIN b :
        /\ b[i].question_id \in Question
        /\ OwnerOfQuestion(b[i].question_id) = StudentCollege[s]
        /\ b[i].selected_option_id \in Option
        /\ OptionQuestion[b[i].selected_option_id] # b[i].question_id}

C8_MismatchNamed ==
    Submitted /\ Resolved
        /\ UnresolvedQuestions(Caller, Batch) = {} /\ UnresolvedOptions(Batch) = {} =>
        \A i \in MismatchedPairs(Caller, Batch) :
            /\ RefusedAsInvalid
            /\ last.mismatch = <<Batch[i].selected_option_id, Batch[i].question_id>>

(***************************************************************************)
(* C9: a batch with unresolved ids is refused with one validation failure  *)
(* that lists exactly the question ids of the batch that do not resolve in *)
(* the student's college and exactly the option ids that do not exist.     *)
(***************************************************************************)
C9_AllMissingIdsListed ==
    Submitted /\ Resolved
        /\ (UnresolvedQuestions(Caller, Batch) # {} \/ UnresolvedOptions(Batch) # {}) =>
            /\ RefusedAsInvalid
            /\ last.missing_questions = UnresolvedQuestions(Caller, Batch)
            /\ last.missing_options = UnresolvedOptions(Batch)
            /\ last.mismatch = <<>>
            /\ Untouched

\* two unresolved question ids and an unresolved option id in one batch
C9_Witness ==
    /\ Submitted /\ Resolved /\ RefusedAsInvalid
    /\ Cardinality(UnresolvedQuestions(Caller, Batch)) = 2
    /\ UnresolvedOptions(Batch) # {}
    /\ last.missing_questions = UnresolvedQuestions(Caller, Batch)
    /\ last.missing_options = UnresolvedOptions(Batch)

(***************************************************************************)
(* C10 as stated: a submit whose college name matches no college, or whose *)
(* student id is not registered in the college, fails with NotFound: the   *)
(* view answers 404, the service raises Http404.                           *)
(***************************************************************************)
C10_NotFound ==
    Submitted /\ ~Resolved /\ Batch # <<>> =>
        /\ last.op = "submit_responses" => last.status = 404
        /\ last.op = "process_submission" => last.raised = "Http404"

(***************************************************************************)
(* C11 as stated: a submit with an empty responses list is refused as a    *)
(* validation failure and writes nothing; it never succeeds.               *)
(***************************************************************************)
C11_EmptyRejected ==
    Submitted /\ Resolved /\ Batch = <<>> =>
        /\ ~Succeeded
        /\ last.op = "submit_responses" => last.status = 400
        /\ last.op = "process_submission" => last.raised \in {"ValidationError", "ValueError"}
        /\ Untouched

\* the sections of scored categories that hold a question of batch b
TouchedSections(b) ==
    {QuestionSection[b[i].question_id] : i \in {j \in DOMAIN b :
        Scored(QuestionSection[b[j].question_id])}}

ResultRowsOf(res, s, sec) == Count(res, LAMBDA r : r.student = s /\ r.section = sec)

(***************************************************************************)
(* C15: after a successful submit every scored section with a question in  *)
(* the batch has one result row for the student, whatever the pairs did    *)
(* (create, update, nothing); when the student has no correct response in  *)
(* such a section, its row holds total_marks = 0.                          *)
(***************************************************************************)
C15_TouchedSectionsScored ==
    Succeeded =>
        \A sec \in TouchedSections(Batch) :
            /\ ResultRowsOf(results, Caller, sec) = 1
            /\ CorrectResponses(responses, Caller, sec) = 0 =>
                  ResultRow(Caller, sec, 0) \in BagToSet(results)

\* the service is given a first, wrong answer to a scored question: the
\* grouped aggregate has no group for the section and the row holds 0
C15_Witness ==
    /\ Succeeded /\ last.op = "process_submission"
    /\ last.pre_results = EmptyBag
    /\ TouchedSections(Batch) = {"sec1"}
    /\ CorrectResponses(responses, Caller, "sec1") = 0
    /\ ResultRow(Caller, "sec1", 0) \in BagToSet(results)

(***************************************************************************)
(* C16: no result row exists for a section of a category without correct   *)
(* answers; a successful submit that answers questions of such sections    *)
(* only leaves the result table as it was.                                 *)
(***************************************************************************)
C16_NoResultForSubjective ==
    /\ \A r \in BagToSet(results) : Scored(r.section)
    /\ Succeeded /\ TouchedSections(Batch) = {} => results = last.pre_results

\* a batch that creates a subjective answer next to a scored one
C16_Witness ==
    /\ Succeeded /\ last.created = 2
    /\ \E i \in DOMAIN Batch : ~Scored(QuestionSection[Batch[i].question_id])
    /\ \E i \in DOMAIN Batch : Scored(QuestionSection[Batch[i].question_id])
    /\ BagToSet(results) # {}
    /\ \A r \in BagToSet(results) : Scored(r.section)

\* a getResults call that returned a body
GotResults == last.op = "get_student_results" /\ last.raised = "None"

\* the sections of categories without correct answers in which s has a response
SubjectiveSectionsOf(tbl, s) ==
    {QuestionSection[r.question] :
        r \in {x \in BagToSet(tbl) : x.student = s /\ ~Scored(QuestionSection[x.question])}}

\* question text and option text of the responses of s in section sec
ResponsesIn(tbl, s, sec) ==
    MapRows(Filter(tbl, LAMBDA r : r.student = s /\ QuestionSection[r.question] = sec),
            LAMBDA r : [question |-> QuestionText[r.question],
                        selected_option |-> OptionText[r.selected_option]])

\* entry e of group g is the subjective entry of section sec of student s
IsEntryOf(g, e, tbl, s, sec) ==
    /\ g.category = CategoryName[SectionCategory[sec]]
    /\ e.section = SectionName[sec]
    /\ e.responses = ResponsesIn(tbl, s, sec)

(***************************************************************************)
(* C17 as stated: getResults holds exactly one subjective entry for each   *)
(* (category, section) of a category without correct answers in which the *)
(* student has a response, and the entry lists the responses of that       *)
(* section and of no other, also when sections carry the same name.        *)
(***************************************************************************)
C17_SubjectiveEntries ==
    GotResults =>
        /\ \A sec \in SubjectiveSectionsOf(responses, Caller) :
               \E g \in last.body.results :
                  Count(g.subjective,
                        LAMBDA e : IsEntryOf(g, e, responses, Caller, sec)) = 1
        /\ \A g \in last.body.results : \A e \in BagToSet(g.subjective) :
               Cardinality({sec \in SubjectiveSectionsOf(responses, Caller) :
                               IsEntryOf(g, e, responses, Caller, sec)}) = 1

\* the entry a result row is reported as
ExpectedEntry(r) ==
    [section |-> SectionName[r.section], result_type |-> "marks",
     total_mark |-> Cardinality({q \in Question : QuestionSection[q] = r.section}),
     student_score |-> r.total_marks]

\* student s has a result row or a subjective response under category c
HasEntryUnder(tbl, res, s, c) ==
    \/ \E r \in BagToSet(res) : r.student = s /\ SectionCategory[r.section] = c
    \/ \E sec \in SubjectiveSectionsOf(tbl, s) : SectionCategory[sec] = c

(***************************************************************************)
(* C18: getResults holds one scored entry for each result row of the       *)
(* student, with the name of the section, the number of questions of the   *)
(* section and the stored score, and no other scored entry; a category is  *)
(* in the output exactly when the student has a scored or a subjective     *)
(* entry under it, and no group of the output is empty.                    *)
(***************************************************************************)
C18_ScoredEntriesAndGroups ==
    GotResults =>
        /\ \A r \in BagToSet(results) : r.student = Caller =>
               \E g \in last.body.results :
                  /\ g.category = CategoryName[SectionCategory[r.section]]
                  /\ CopiesIn(ExpectedEntry(r), g.objective) = 1
        /\ \A g \in last.body.results : \A e \in BagToSet(g.objective) :
               \E r \in BagToSet(results) :
                  /\ r.student = Caller
                  /\ g.category = CategoryName[SectionCategory[r.section]]
                  /\ e = ExpectedEntry(r)
        /\ \A c \in Category :
               (\E g \in last.body.results : g.category = CategoryName[c])
                  <=> HasEntryUnder(responses, results, Caller, c)
        /\ \A g \in last.body.results :
               g.objective # EmptyBag \/ g.subjective # EmptyBag
        /\ \A g, h \in last.body.results : g.category = h.category => g = h

\* a student with one correct answer out of the two questions of the scored
\* section and no subjective response: one group, one entry
C18_Witness ==
    /\ GotResults
    /\ ResultRow(Caller, "sec1", 1) \in BagToSet(results)
    /\ SubjectiveSectionsOf(responses, Caller) = {}
    /\ Cardinality(last.body.results) = 1
    /\ \E g \in last.body.results :
          /\ g.category = "Aptitude"
          /\ g.objective = SetToBag({[section |-> "Math", result_type |-> "marks",
                                      total_mark |-> 2, student_score |-> 1]})

\* worker w takes the step that ends its request
Finishes(w) == reg[w].pc # "done" /\ reg'[w].pc = "done"

\* the request of worker w has a college, which holds its student_id
PairExists(w) ==
    /\ reg[w].college \in College
    /\ StudentRowsOf(students, reg[w].college, reg[w].student_id) > 0

(***************************************************************************)
(* C14: at most one Student exists for a college and a student_id; a       *)
(* registration that ends while its (college, student_id) exists is        *)
(* refused as a ValidationError (400) and leaves the table as it is; a     *)
(* refused registration never writes; a registration that names a college  *)
(* is refused only when its pair exists in that college (the same          *)
(* student_id in another college does not refuse it), and otherwise adds   *)
(* its row.                                                                *)
(***************************************************************************)
C14_UniquePerCollege ==
    /\ [](\A c \in College, sid \in StudentIds : StudentRowsOf(students, c, sid) <= 1)
    /\ [][\A w \in Worker : Finishes(w) =>
             /\ PairExists(w) => reg'[w].status = 400 /\ students' = students
             /\ reg'[w].status = 400 => students' = students
             /\ reg[w].college \in College /\ ~PairExists(w) =>
                   /\ reg'[w].status = 201
                   /\ students' = students (+) SetToBag({StudentRow(reg[w].college,
                                                  reg[w].student_id, reg[w].name)})]_vars

\* two requests for the same new pair ran at the same time: one is
\* registered, the other refused; the same student_id is registered in the
\* other college as well
C14_Witness ==
    /\ reg[1].pc = "done" /\ reg[2].pc = "done"
    /\ reg[1].college = reg[2].college /\ reg[1].student_id = "S-2"
    /\ reg[2].student_id = "S-2"
    /\ {reg[1].status, reg[2].status} = {201, 400}
    /\ \A c \in College : StudentRowsOf(students, c, "S-2") = 1

\* the question the last save wrote, and the options of a question
SavedQuestion == CHOOSE q \in questions : q.id = saved.question

OptionsOf(opts, question_id) == {o \in opts : o.question = question_id}

\* the texts of the template of section sec; none without a template
TemplateTexts(sec) ==
    IF subjective_option_template[sec] = "None" THEN <<>>
    ELSE TemplateOptions[subjective_option_template[sec]]

\* options opts are, in the order of their ids, the texts, none correct
InTemplateOrder(opts, texts) ==
    /\ Cardinality(opts) = Len(texts)
    /\ \A o \in opts : ~o.is_correct
    /\ \A i \in DOMAIN texts :
          \E o \in opts : o.text = texts[i]
                          /\ Cardinality({x \in opts : x.id < o.id}) = i - 1

(***************************************************************************)
(* C19: the creation of a question under a category without correct        *)
(* answers, in a section whose template has k >= 1 options, adds exactly k *)
(* options to that question, with the texts of the template in its order   *)
(* and is_correct = false; the creation of a question under a scored       *)
(* category, in a section without a template or with an empty template     *)
(* adds no option.  No other option is added or changed.                   *)
(***************************************************************************)
C19_DefaultOptions ==
    saved.op = "create" =>
        LET q == SavedQuestion
            added == options \ saved.pre_options
        IN  /\ saved.pre_options \subseteq options
            /\ added = OptionsOf(options, q.id)
            /\ IF ~has_correct_answers[SectionCategory[q.section]]
                     /\ Len(TemplateTexts(q.section)) >= 1
               THEN InTemplateOrder(added, TemplateTexts(q.section))
               ELSE added = {}

\* a question created in the templated section of the subjective category
\* got the two options of the template
C19_Witness ==
    /\ saved.op = "create" /\ SavedQuestion.section = "sec2"
    /\ Cardinality(options \ saved.pre_options) = 2
    /\ \E a, b \in options \ saved.pre_options :
          a.id < b.id /\ a.text = "Agree" /\ b.text = "Disagree"

\* the questions authored on top of the catalogue
Authored == {q \in questions : q.id \notin Question}

(***************************************************************************)
(* C20: a save of a stored question leaves the Option table as it is,      *)
(* whatever section the question is moved to; every authored question      *)
(* holds no option or the options of one template, once.                   *)
(***************************************************************************)
C20_GeneratedOnce ==
    /\ saved.op = "update" => options = saved.pre_options
    /\ \A q \in Authored :
          \/ OptionsOf(options, q.id) = {}
          \/ \E t \in SubjectiveOptionTemplate :
                InTemplateOrder(OptionsOf(options, q.id), TemplateOptions[t])

\* a question created without options and then moved, by a save, into the
\* templated section of the subjective category: it still has none
C20_Witness ==
    /\ saved.op = "update" /\ SavedQuestion \in Authored
    /\ SavedQuestion.section = "sec2"
    /\ OptionsOf(options, saved.question) = {}
    /\ options = saved.pre_options

\* both calls have ended, and they were calls of one student
BothEnded ==
    /\ \A w \in Worker : calls[w].pc = "done"
    /\ calls[1].student = calls[2].student

\* call c committed its batch; call c ended in a conflict
CallCommitted(c) ==
    /\ c.raised = "None"
    /\ c.op = "submit_responses" => c.status = 201

CallConflict(c) ==
    /\ c.op = "submit_responses" => c.status = 409
    /\ c.op = "process_submission" => c.raised = "IntegrityError"

\* the questions call c tried to create a first response for
TriedToCreate(c) == {c.st.to_create[i].question_id : i \in DOMAIN c.st.to_create}

\* table tbl is table pre with the batch of call c written over it
OnlyBatchOf(tbl, pre, c) ==
    \A q \in Question :
        IF q \in question_ids_of(c.responses_data)
        THEN /\ RowsOf(tbl, c.student, q) = 1
             /\ RowOf(tbl, c.student, q).selected_option = LastChoice(c.responses_data, q)
        ELSE /\ RowsOf(tbl, c.student, q) = RowsOf(pre, c.student, q)
             /\ RowsOf(pre, c.student, q) = 1 =>
                   RowOf(tbl, c.student, q).selected_option
                      = RowOf(pre, c.student, q).selected_option

(***************************************************************************)
(* C12 as stated, for batches without a repeated question id: when two     *)
(* calls of a student at the same time both try to create the first        *)
(* response to a question, one of them commits its whole batch and the     *)
(* other ends in a conflict (the view answers 409, the service raises      *)
(* IntegrityError) with none of its batch committed; no (student,          *)
(* question) has two rows.                                                 *)
(***************************************************************************)
C12_OneCommitsOtherConflicts ==
    /\ \A s \in Student, q \in Question : RowsOf(responses, s, q) <= 1
    /\ BothEnded
         /\ TriedToCreate(calls[1]) \cap TriedToCreate(calls[2]) # {}
         /\ DistinctQuestions(calls[1].responses_data)
         /\ DistinctQuestions(calls[2].responses_data) =>
            \E w \in Worker : \E v \in Worker \ {w} :
               /\ CallCommitted(calls[w])
               /\ CallConflict(calls[v])
               /\ OnlyBatchOf(responses, calls[w].pre_responses, calls[w])

\* the scored sections both calls have a question in, with no question in common
SharedSections(c, d) ==
    IF question_ids_of(c.responses_data) \cap question_ids_of(d.responses_data) # {}
    THEN {}
    ELSE TouchedSections(c.responses_data) \cap TouchedSections(d.responses_data)

(***************************************************************************)
(* C13 as stated: when two calls of a student at the same time answer      *)
(* different questions of one scored section and both commit, the result   *)
(* row of that section holds the number of the student's correct           *)
(* responses in the section.                                               *)
(***************************************************************************)
C13_NoStaleScore ==
    BothEnded /\ CallCommitted(calls[1]) /\ CallCommitted(calls[2]) =>
        \A sec \in SharedSections(calls[1], calls[2]) :
            \A r \in BagToSet(results) :
                r.student = calls[1].student /\ r.section = sec =>
                    r.total_marks = CorrectResponses(responses, r.student, sec)

(***************************************************************************)
(* C21: _recalculate_marks called a second time for the same student with  *)
(* the same section ids, the responses being as they were, leaves every    *)
(* result row as the first call left it: the same rows, the same           *)
(* total_marks.                                                            *)
(***************************************************************************)
C21_RecalculateIdempotent ==
    calls[1].op = "_recalculate_marks" /\ calls[1].repeated =>
        /\ calls[1].raised = "None"
        /\ results = calls[1].pre_results

\* the second call for two sections, of which the first call corrected a
\* stale row of one and created the row of the other
C21_Witness ==
    /\ calls[1].op = "_recalculate_marks" /\ calls[1].repeated
    /\ calls[1].student = "st1" /\ calls[1].section_ids = {"sec1", "sec4"}
    /\ ResultRow("st1", "sec1", 2) \in BagToSet(results)
    /\ ResultRow("st1", "sec4", 0) \in BagToSet(results)
    /\ results = calls[1].pre_results

\* the exceptions of the validation steps
ValidationFailures == {"ValidationError", "ValueError", "Http404"}

\* the statements of the validation steps
Validating(c) == c.pc \in {"ids", "loop"}

(***************************************************************************)
(* C22: while a submit call resolves the college and the student, checks   *)
(* the ids and checks the pairs, it has written nothing; a call that ended *)
(* in a validation failure has written nothing; and when a call has        *)
(* written, every pair of its batch has passed its check.                  *)
(***************************************************************************)
C22_ValidationBeforeWrites ==
    LET c == calls[1]
    IN  /\ Validating(c) => c.written = 0
        /\ c.pc = "done" /\ c.error \in ValidationFailures =>
              /\ c.written = 0
              /\ responses = c.pre_responses /\ results = c.pre_results
        /\ c.written > 0 =>
              /\ c.student \in Student
              /\ ~validate_completeness(c.responses_data, c.college)
              /\ c.i = Len(c.responses_data) + 1
              /\ c.st.mismatch = <<>>

\* a batch whose second pair fails the check, the first being a new answer
C22_Witness ==
    LET c == calls[1]
    IN  /\ c.pc = "done" /\ c.error \in ValidationFailures
        /\ c.i = 2 /\ c.st.mismatch # <<>>
        /\ Len(c.st.to_create) = 1
        /\ c.written = 0

\* the call of the statement-level model committed
Committed(c) == c.pc = "done" /\ c.error = "None"

\* the rows a submit of student s with batch b may change
InBatch(r, s, b) == r.student = s /\ r.question \in question_ids_of(b)

InTouched(r, s, b) == r.student = s /\ r.section \in TouchedSections(b)

(***************************************************************************)
(* C23: a successful submit of student S changes only response rows of S   *)
(* for questions of the batch and only result rows of S for scored         *)
(* sections that hold a question of the batch: the rows of other students, *)
(* the responses of S to other questions and the results of S for other    *)
(* sections are as they were before the call.                              *)
(***************************************************************************)
C23_FrameOfSubmit ==
    LET c == calls[1]
    IN  Committed(c) =>
          /\ Filter(responses, LAMBDA r : ~InBatch(r, c.student, c.responses_data))
                = Filter(c.pre_responses, LAMBDA r : ~InBatch(r, c.student, c.responses_data))
          /\ Filter(results, LAMBDA r : ~InTouched(r, c.student, c.responses_data))
                = Filter(c.pre_results, LAMBDA r : ~InTouched(r, c.student, c.responses_data))

\* the student changes the answer to a scored question that another student
\* has answered too, and has a response to a question that is not in the batch
C23_Witness ==
    LET c == calls[1]
    IN  /\ Committed(c) /\ c.student = "st1"
        /\ question_ids_of(c.responses_data) = {1}
        /\ Len(c.st.to_update) = 1
        /\ RowsOf(responses, "st3", 1) = 1 /\ RowsOf(responses, "st1", 3) = 1
        /\ ResultRowsOf(results, "st3", "sec1") = 1
        /\ results # c.pre_results

\* the pairs of the batch whose option is the one stored before the call
SameAsStored(tbl, s, b) ==
    {i \in DOMAIN b :
        /\ RowsOf(tbl, s, b[i].question_id) = 1
        /\ RowOf(tbl, s, b[i].question_id).selected_option = b[i].selected_option_id}

\* the pairs of the batch whose question id no other pair of the batch has
OnceInBatch(b) ==
    {i \in DOMAIN b : \A j \in DOMAIN b : b[j].question_id = b[i].question_id => j = i}

\* the stored rows of pairs K are as before the call, and these pairs are
\* in neither count
LeftAlone(K) ==
    /\ \A i \in K :
          /\ RowsOf(responses, Caller, Batch[i].question_id) = 1
          /\ RowOf(responses, Caller, Batch[i].question_id)
                = RowOf(last.pre_responses, Caller, Batch[i].question_id)
    /\ last.created + last.updated <= Len(Batch) - Cardinality(K)

(***************************************************************************)
(* C24 as stated: in a successful submit, for every pair whose option is   *)
(* the one stored for the student and the question, the stored row is left *)
(* as it was (option and timestamp) and the pair is in neither count.      *)
(***************************************************************************)
C24_Original ==
    Succeeded => LeftAlone(SameAsStored(last.pre_responses, Caller, Batch))

(***************************************************************************)
(* C24: in a successful submit, for every pair whose question id occurs    *)
(* once in the batch and whose option is the one stored for the student    *)
(* and the question, the stored row is left as it was (option and          *)
(* timestamp) and the pair is in neither the created nor the updated       *)
(* count, also when other pairs of the batch are creates or updates.       *)
(***************************************************************************)
C24_NoOpPairs ==
    Succeeded =>
        LeftAlone(SameAsStored(last.pre_responses, Caller, Batch) \cap OnceInBatch(Batch))

\* a batch of a create, an update and a pair that repeats the stored answer
C24_Witness ==
    /\ Succeeded /\ Len(Batch) = 3 /\ DistinctQuestions(Batch)
    /\ last.created = 1 /\ last.updated = 1
    /\ Cardinality(SameAsStored(last.pre_responses, Caller, Batch)) = 1
    /\ LeftAlone(SameAsStored(last.pre_responses, Caller, Batch))

\* every mismatched pair of the batch is named by the failure
NamesEveryMismatch ==
    \A i \in MismatchedPairs(Caller, Batch) :
        last.mismatch = <<Batch[i].selected_option_id, Batch[i].question_id>>

(***************************************************************************)
(* C25 as stated: a submit that is refused as invalid names every          *)
(* offending id of the batch: every question id and every option id that   *)
(* does not resolve, and, when all ids resolve, the question id and the    *)
(* option id of every pair whose option is not an option of its question.  *)
(***************************************************************************)
C25_EveryOffenderNamed ==
    Submitted /\ Resolved /\ Batch # <<>> =>
        /\ UnresolvedQuestions(Caller, Batch) # {} \/ UnresolvedOptions(Batch) # {} =>
              /\ RefusedAsInvalid
              /\ last.missing_questions = UnresolvedQuestions(Caller, Batch)
              /\ last.missing_options = UnresolvedOptions(Batch)
        /\ UnresolvedQuestions(Caller, Batch) = {} /\ UnresolvedOptions(Batch) = {}
             /\ MismatchedPairs(Caller, Batch) # {} =>
              RefusedAsInvalid /\ NamesEveryMismatch

\* the (student, question) keys with a row in tbl
KeysOf(tbl) == {<<r.student, r.question>> : r \in BagToSet(tbl)}

\* the rows that exist after the call and did not exist before it
CreatedRows == KeysOf(responses) \ KeysOf(last.pre_responses)

\* the rows that existed before the call and hold another option after it
ChangedRows ==
    {k \in KeysOf(last.pre_responses) \cap KeysOf(responses) :
        RowOf(responses, k[1], k[2]).selected_option
            # RowOf(last.pre_responses, k[1], k[2]).selected_option}

(***************************************************************************)
(* C27 as stated: for every successful submit, the created count is the    *)
(* number of response rows that exist after the call and did not exist     *)
(* before it, and the updated count is the number of rows that existed     *)
(* before the call and hold another option after it.                       *)
(***************************************************************************)
C27_Original ==
    Succeeded =>
        /\ last.created = Cardinality(CreatedRows)
        /\ last.updated = Cardinality(ChangedRows)

(***************************************************************************)
(* C27: for every successful submit of a batch with pairwise distinct      *)
(* question ids, the created count is the number of response rows that     *)
(* exist after the call and did not exist before it, and the updated count *)
(* is the number of rows that existed before the call and hold another     *)
(* option after it.                                                        *)
(***************************************************************************)
C27_CountsAreRowChanges ==
    Succeeded /\ DistinctQuestions(Batch) =>
        /\ last.created = Cardinality(CreatedRows)
        /\ last.updated = Cardinality(ChangedRows)

\* the service returned (2, 1)
C27_Witness ==
    /\ Succeeded /\ last.op = "process_submission" /\ DistinctQuestions(Batch)
    /\ last.created = 2 /\ last.updated = 1
    /\ Cardinality(CreatedRows) = 2 /\ Cardinality(ChangedRows) = 1

\* what the other handler does with the request of the last call, on the
\* tables the call found
OtherHandler ==
    IF last.op = "submit_responses"
    THEN process_submission(last.pre_responses, last.pre_results, last.college_name,
                            last.student_id, Batch)
    ELSE submit_responses(last.pre_responses, last.pre_results, last.college_name,
                          last.student_id, Batch)

\* the outcome of a handler is a commit
Commits(out) == out.raised = "None" /\ out.status \in {0, 201}

(***************************************************************************)
(* C28: from the same tables, with the same college name, student id and   *)
(* non-empty batch, the view and the service both commit and leave the     *)
(* same responses and the same results, or both fail and leave the tables  *)
(* as they were.                                                           *)
(***************************************************************************)
C28_ViewAndServiceAgree ==
    Submitted /\ Batch # <<>> =>
        \/ /\ Succeeded /\ Commits(OtherHandler)
           /\ OtherHandler.responses = responses
           /\ OtherHandler.results = results
        \/ /\ Failed /\ ~Commits(OtherHandler)
           /\ Untouched
           /\ OtherHandler.responses = last.pre_responses
           /\ OtherHandler.results = last.pre_results

\* a batch that turns the only correct answer of a scored section into a
\* wrong one: the grouped aggregate has no row for the section
C28_Witness ==
    /\ Succeeded /\ last.updated = 1 /\ Commits(OtherHandler)
    /\ ResultRow(Caller, "sec1", 1) \in BagToSet(last.pre_results)
    /\ ResultRow(Caller, "sec1", 0) \in BagToSet(results)
    /\ OtherHandler.results = results

\* the last page submitted was a question page with its option formset
FormsetSubmitted == saved.op \in {"add", "change"}

\* the section of the question of the last page
PageSection ==
    IF saved.question \in {q.id : q \in questions}
    THEN (CHOOSE q \in questions : q.id = saved.question).section
    ELSE "None"

\* the last page was that of a question of a scored category
ScoredPage ==
    /\ FormsetSubmitted
    /\ PageSection # "None"
    /\ has_correct_answers[SectionCategory[PageSection]]

\* the options of the question that are marked correct
CorrectOptions(opts, question_id) ==
    {o \in OptionsOf(opts, question_id) : o.is_correct}

\* the submission left every stored option as it was and added none
LeftUntouched ==
    \A i \in DOMAIN saved.forms :
        saved.forms[i].id # 0 /\ ~saved.forms[i].changed /\ ~saved.forms[i].DELETE

(***************************************************************************)
(* C26 as stated: for a question of a scored category, after an option     *)
(* formset that clean accepted (the first authoring or a later edit),      *)
(* exactly one option of the question is marked correct; and a formset     *)
(* that leaves the stored options, one of them correct, as they are is     *)
(* accepted.                                                               *)
(***************************************************************************)
C26_OneCorrectOption ==
    ScoredPage =>
        /\ saved.error = "None" =>
              Cardinality(CorrectOptions(options, saved.question)) = 1
        /\ /\ saved.op = "change"
           /\ LeftUntouched
           /\ Cardinality(CorrectOptions(saved.pre_options, saved.question)) = 1
           => saved.error = "None"

\* what does hold: among the forms clean counts, exactly one is marked
\* correct when the formset of a scored question is accepted
AcceptedHasOneCorrectForm ==
    ScoredPage /\ saved.error = "None" =>
        Cardinality({i \in CountedForms(saved.forms) : saved.forms[i].is_correct}) = 1
====
